---- MODULE Spec2Model ----
(***************************************************************************)
(* A model of the transport layer of the podman client (kaberc/podman):   *)
(*   - the event stream decoder, SystemApi.parsedEvents (src/api/system.ts)*)
(*   - the request executor, buildTransport (src/transport_core.ts)        *)
(*   - the connection backends and the SSH tunnel manager                  *)
(*     (src/unnamed/part_004, src/unnamed/part_002, src/ssh_transport.ts,  *)
(*      src/_node/ssh_transport.ts)                                        *)
(* A text is a sequence of characters, each character a string.            *)
(***************************************************************************)
EXTENDS Integers, Sequences, FiniteSets, TLC

\* ------------------------------------------------------------------ bounds
\* Longest byte sequence the events endpoint delivers in one stream.
MaxWire == 5
\* Longest response body text of one HTTP exchange.
MaxBody == 4
\* How many times close() is called on one transport.
MaxCloses == 2

\* -------------------------------------------------------------- characters
SP == " "
NL == "\n"
\* U+FFFD, what the UTF-8 decoder emits for a malformed byte sequence.
REPLACEMENT == "U+FFFD"
\* A two-byte character, the no-break space U+00A0, and its two bytes.
NBSP == "U+00A0"
LEAD == "0xC2"
CONT == "0xA0"

Digits == {"0", "1"}
\* String.prototype.trim strips these (of the characters modelled): WhiteSpace
\* and LineTerminator of ECMAScript, which the no-break space belongs to.
TrimSpace == {SP, NL, NBSP}
\* JSON.parse skips these around a value (of the characters modelled).
JsonSpace == {SP, NL}
\* An object member: "message":"boom"  "cause":"why"  "message":7
MemberTokens == {"M", "C", "N"}

\* ------------------------------------------------------------ text helpers
RECURSIVE DropLeading(_, _)
DropLeading(s, ws) ==
  IF s = <<>> THEN s
  ELSE IF Head(s) \in ws THEN DropLeading(Tail(s), ws) ELSE s

RECURSIVE DropTrailing(_, _)
DropTrailing(s, ws) ==
  IF s = <<>> THEN s
  ELSE IF s[Len(s)] \in ws THEN DropTrailing(SubSeq(s, 1, Len(s) - 1), ws) ELSE s

\* String.prototype.trim
Trim(s) == DropTrailing(DropLeading(s, TrimSpace), TrimSpace)

\* String.prototype.split(sep): the pieces between the separators, at least one.
RECURSIVE SplitOn(_, _, _)
SplitOn(s, sep, cur) ==
  IF s = <<>> THEN <<cur>>
  ELSE IF Head(s) = sep THEN <<cur>> \o SplitOn(Tail(s), sep, <<>>)
  ELSE SplitOn(Tail(s), sep, Append(cur, Head(s)))

Split(s, sep) == SplitOn(s, sep, <<>>)

\* ---------------------------------------------------------------- JSON.parse
\* Values: null, a number [t |-> "num", digits], an object
\* [t |-> "obj", message, cause]; a field is absent, a string or a number.
Null == [t |-> "null"]
AbsentField == [k |-> "absent"]
StrField(text) == [k |-> "str", v |-> text]
NumField == [k |-> "num"]

IsNumberText(s) ==
  /\ s # <<>>
  /\ \A i \in 1..Len(s) : s[i] \in Digits
  /\ (Len(s) = 1 \/ s[1] # "0")

EmptyObject == [t |-> "obj", message |-> AbsentField, cause |-> AbsentField]

\* One member added to an object: a later duplicate key overrides.
WithMember(obj, m) ==
  CASE m = "M" -> [obj EXCEPT !.message = StrField(<<"boom">>)]
    [] m = "C" -> [obj EXCEPT !.cause = StrField(<<"why">>)]
    [] m = "N" -> [obj EXCEPT !.message = NumField]

Fail == [ok |-> FALSE]
Ok(v) == [ok |-> TRUE, val |-> v]

RECURSIVE MembersOf(_, _)
\* The object built from the comma-separated pieces; Fail when a piece is not
\* exactly one member.
MembersOf(pieces, obj) ==
  IF pieces = <<>> THEN Ok(obj)
  ELSE LET p == DropTrailing(DropLeading(Head(pieces), JsonSpace), JsonSpace)
       IN IF Len(p) = 1 /\ p[1] \in MemberTokens
          THEN MembersOf(Tail(pieces), WithMember(obj, p[1]))
          ELSE Fail

QUOTE == "\""
BACKSLASH == "\\"
NullText == <<"n", "u", "l", "l">>

RECURSIVE Unescape(_, _)
\* The characters of a string literal between its quotes: Fail on a bare quote
\* or a backslash with nothing after it.
Unescape(s, text) ==
  IF s = <<>> THEN Ok([t |-> "str", text |-> text])
  ELSE IF Head(s) = BACKSLASH
  THEN IF Len(s) >= 2 /\ s[2] \in {QUOTE, BACKSLASH}
       THEN Unescape(Tail(Tail(s)), Append(text, s[2]))
       ELSE Fail
  ELSE IF Head(s) = QUOTE THEN Fail
  ELSE Unescape(Tail(s), Append(text, Head(s)))

\* JSON.parse(text): Fail is the SyntaxError it throws.
JSONParse(text) ==
  LET s == DropTrailing(DropLeading(text, JsonSpace), JsonSpace)
  IN IF IsNumberText(s) THEN Ok([t |-> "num", digits |-> s])
     ELSE IF s = NullText THEN Ok(Null)
     ELSE IF Len(s) >= 2 /\ s[1] = QUOTE /\ s[Len(s)] = QUOTE
     THEN Unescape(SubSeq(s, 2, Len(s) - 1), <<>>)
     ELSE IF Len(s) >= 2 /\ s[1] = "{" /\ s[Len(s)] = "}"
     THEN LET inner == DropTrailing(DropLeading(SubSeq(s, 2, Len(s) - 1), JsonSpace), JsonSpace)
          IN IF inner = <<>> THEN Ok(EmptyObject)
             ELSE MembersOf(Split(inner, ","), EmptyObject)
     ELSE Fail

\* Values JSON.parse gives on other documents, and undefined.
Undefined == [t |-> "undefined"]
Bool(b) == [t |-> "bool", b |-> b]
Str(text) == [t |-> "str", text |-> text]
EmptyArray == [t |-> "arr"]
\* Fields that are null or an object.
NullField == [k |-> "null"]
ObjField == [k |-> "obj"]

\* JavaScript truthiness of a value.
Truthy(v) ==
  CASE v.t \in {"null", "undefined"} -> FALSE
    [] v.t = "bool" -> v.b
    [] v.t = "num" -> v.digits # <<"0">>
    [] v.t = "str" -> v.text # <<>>
    [] OTHER -> TRUE

RECURSIVE Escape(_)
\* The characters of a string as JSON.stringify writes them between quotes.
Escape(text) ==
  IF text = <<>> THEN <<>>
  ELSE (IF Head(text) \in {QUOTE, BACKSLASH} THEN <<BACKSLASH, Head(text)>> ELSE <<Head(text)>>)
         \o Escape(Tail(text))

\* The member tokens of an object, message before cause.
MemberTexts(obj) ==
  LET m == IF obj.message.k = "str" THEN <<"M">>
           ELSE IF obj.message.k = "num" THEN <<"N">> ELSE <<>>
      c == IF obj.cause.k = "str" THEN <<"C">> ELSE <<>>
  IN m \o (IF m # <<>> /\ c # <<>> THEN <<",">> ELSE <<>>) \o c

\* JSON.stringify(v), for null, numbers, strings and the objects JSONParse gives.
JSONStringify(v) ==
  CASE v.t = "null" -> NullText
    [] v.t = "num" -> v.digits
    [] v.t = "str" -> <<QUOTE>> \o Escape(v.text) \o <<QUOTE>>
    [] v.t = "obj" -> <<"{">> \o MemberTexts(v) \o <<"}">>

\* typeof v === "object"
TypeofObject(v) == v.t \in {"null", "obj", "arr"}

\* v.message, v.cause: a property the value does not have is undefined.
GetField(v, name) == IF v.t = "obj" THEN v[name] ELSE AbsentField

\* ------------------------------------------------------- TextDecoderStream
\* UTF-8 decoding of the next bytes, given the incomplete sequence left by the
\* chunks before: [text, pending].
RECURSIVE Utf8Decode(_, _, _)
Utf8Decode(pending, bytes, text) ==
  IF bytes = <<>> THEN [text |-> text, pending |-> pending]
  ELSE LET b == Head(bytes)
       IN IF pending # <<>>
          THEN IF b = CONT
               THEN Utf8Decode(<<>>, Tail(bytes), Append(text, NBSP))
               ELSE Utf8Decode(<<>>, bytes, Append(text, REPLACEMENT))
          ELSE IF b = LEAD THEN Utf8Decode(<<LEAD>>, Tail(bytes), text)
          ELSE IF b = CONT THEN Utf8Decode(<<>>, Tail(bytes), Append(text, REPLACEMENT))
          ELSE Utf8Decode(<<>>, Tail(bytes), Append(text, b))

\* What the decoder emits when its input ends.
Utf8Flush(pending) == IF pending = <<>> THEN <<>> ELSE <<REPLACEMENT>>

\* ------------------------------------------------------------ parsedEvents
RECURSIVE YieldLines_stopsAtMalformed(_, _)
\* A decoder whose loop over the lines ends at the first line that does not parse.
YieldLines_stopsAtMalformed(lines, out) ==
  IF lines = <<>> THEN out
  ELSE LET trimmed == Trim(Head(lines))
           parsed == JSONParse(trimmed)
       IN IF trimmed = <<>> THEN YieldLines_stopsAtMalformed(Tail(lines), out)
          ELSE IF parsed.ok
          THEN YieldLines_stopsAtMalformed(Tail(lines), Append(out, parsed.val))
          ELSE out

RECURSIVE YieldLines(_, _)
\* for (const line of lines): the records yielded, appended to out.
YieldLines(lines, out) ==
  IF lines = <<>> THEN out
  ELSE LET trimmed == Trim(Head(lines))
           parsed == JSONParse(trimmed)
       IN IF trimmed # <<>> /\ parsed.ok
          THEN YieldLines(Tail(lines), Append(out, parsed.val))
          ELSE YieldLines(Tail(lines), out)

\* A decoder that forgets the unfinished line at the end of a chunk.
PopLast_dropsFragment(lines) == <<>>

\* lines.pop() ?? "": the last piece is kept as the new buffer.
PopLast(lines) == lines[Len(lines)]

\* One turn of the read loop on a decoded chunk: [buffer, out].
LoopBody(buf, out, value) ==
  LET lines == Split(buf \o value, NL)
  IN [buffer |-> PopLast(lines),
      out |-> YieldLines(SubSeq(lines, 1, Len(lines) - 1), out)]

\* A decoder that ends without looking at what is left in the buffer.
FinalParse_skipped(buf, out) == out

\* After the loop: one parse attempt on what is left in the buffer.
FinalParse(buf, out) ==
  LET trimmed == Trim(buf)
      parsed == JSONParse(trimmed)
  IN IF trimmed # <<>> /\ parsed.ok THEN Append(out, parsed.val) ELSE out


\* ------------------------------------------------------------ error classifier
UnknownError == <<"Unknown error">>

\* A classifier that prefers the cause to the message.
ExtractMessage_causeFirst(json) ==
  IF Truthy(json) /\ TypeofObject(json)
  THEN IF GetField(json, "cause").k = "str" THEN GetField(json, "cause").v
       ELSE IF GetField(json, "message").k = "str" THEN GetField(json, "message").v
       ELSE UnknownError
  ELSE UnknownError

\* extractMessage(json)
ExtractMessage(json) ==
  IF Truthy(json) /\ TypeofObject(json)
  THEN IF GetField(json, "message").k = "str" THEN GetField(json, "message").v
       ELSE IF GetField(json, "cause").k = "str" THEN GetField(json, "cause").v
       ELSE UnknownError
  ELSE UnknownError

\* ------------------------------------------------------------ request executor
\* requestStream rejects a response whose status is at least this.
ErrorStatus == 400
\* request quotes this many characters of a body that is not JSON.
InvalidJsonQuote == 200

NoValue == [t |-> "none"]
Outcome(op, kind, status, message, call, json, bodyRead) ==
  [op |-> op, kind |-> kind, status |-> status, message |-> message,
   method |-> call.method, path |-> call.path, json |-> json, bodyRead |-> bodyRead]

\* The text res.text() gives: the body, empty when the response has none.
BodyText(res) == IF res.hasBody THEN res.body ELSE <<>>

\* A quote that is never cut.
Prefix_whole(text, n) == text

\* text.slice(0, n)
Prefix(text, n) == SubSeq(text, 1, IF Len(text) < n THEN Len(text) ELSE n)

\* A request that skips the parse only when the body is empty.
IsBlank_onlyEmpty(text) == text = <<>>

\* !text.trim()
IsBlank(text) == Trim(text) = <<>>

\* A request that rejects every response with an error status.
RequestResult_rejectsErrorStatus(call, res) ==
  LET text == BodyText(res)
      parsed == JSONParse(text)
  IN IF res.status >= ErrorStatus
     THEN Outcome("request", "PodmanError", res.status,
                  IF parsed.ok THEN ExtractMessage(parsed.val) ELSE text, call, NoValue, TRUE)
     ELSE IF ~IsBlank(text) /\ ~parsed.ok
     THEN Outcome("request", "PodmanError", res.status,
                  <<"Invalid JSON response: ">> \o Prefix(text, InvalidJsonQuote),
                  call, NoValue, TRUE)
     ELSE Outcome("request", "resolved", res.status, <<>>, call,
                  IF IsBlank(text) THEN Null ELSE parsed.val, TRUE)

\* request(method, path): what the call settles with for the response res.
RequestResult(call, res) ==
  LET text == BodyText(res)
      parsed == JSONParse(text)
  IN IF ~IsBlank(text)
     THEN IF parsed.ok
          THEN Outcome("request", "resolved", res.status, <<>>, call, parsed.val, TRUE)
          ELSE Outcome("request", "PodmanError", res.status,
                       <<"Invalid JSON response: ">> \o Prefix(text, InvalidJsonQuote),
                       call, NoValue, TRUE)
     ELSE Outcome("request", "resolved", res.status, <<>>, call, Null, TRUE)

\* A stream error message taken from the classifier whatever the body was.
StreamErrorMessage_alwaysExtracts(text) ==
  LET parsed == IF ~IsBlank(text) THEN JSONParse(text) ELSE Ok(Null)
  IN ExtractMessage(IF parsed.ok THEN parsed.val ELSE Null)

\* The message of the PodmanError requestStream throws for the body text:
\* json ? extractMessage(json) : text || "Stream request failed"
StreamErrorMessage(text) ==
  LET parsed == IF ~IsBlank(text) THEN JSONParse(text) ELSE Ok(Null)
      json == IF parsed.ok THEN parsed.val ELSE Null
  IN IF Truthy(json) THEN ExtractMessage(json)
     ELSE IF text # <<>> THEN text
     ELSE <<"Stream request failed">>

\* A requestStream that lets a response with exactly the status 400 through.
IsErrorStatus_above(status) == status > ErrorStatus

\* res.status >= 400
IsErrorStatus(status) == status >= ErrorStatus

\* An error for a missing body that does not say which call it was.
NoBodyMessage_unnamed(call) == <<"No response body">>

\* `No response body for ${method} ${path}`
NoBodyMessage(call) == <<"No response body for ", call.method, " ", call.path>>

\* requestStream(method, path): what the call settles with for the response res.
\* A requestStream that looks for the body before it looks at the status.
RequestStreamResult_bodyFirst(call, res) ==
  IF ~res.hasBody
  THEN Outcome("requestStream", "Error", res.status, NoBodyMessage(call), call, NoValue, FALSE)
  ELSE IF IsErrorStatus(res.status)
  THEN Outcome("requestStream", "PodmanError", res.status,
               StreamErrorMessage(BodyText(res)), call, NoValue, TRUE)
  ELSE Outcome("requestStream", "stream", res.status, <<>>, call, NoValue, FALSE)

RequestStreamResult(call, res) ==
  IF IsErrorStatus(res.status)
  THEN Outcome("requestStream", "PodmanError", res.status,
               StreamErrorMessage(BodyText(res)), call, NoValue, TRUE)
  ELSE IF ~res.hasBody
  THEN Outcome("requestStream", "Error", res.status, NoBodyMessage(call), call, NoValue, FALSE)
  ELSE Outcome("requestStream", "stream", res.status, <<>>, call, NoValue, FALSE)

\* requestRaw(method, path): the response, as doFetch gave it.
RequestRawResult(call, res) ==
  Outcome("requestRaw", "response", res.status, <<>>, call, NoValue, FALSE)

\* throwRawError: the message of the PodmanError for the body text. A text that
\* does not parse becomes the message; a parsed value goes to extractMessage.
RawErrorMessage(text) ==
  LET parsed == IF ~IsBlank(text) THEN JSONParse(text) ELSE Ok(Null)
  IN IF parsed.ok THEN ExtractMessage(parsed.val)
     ELSE ExtractMessage([t |-> "obj", message |-> StrField(text), cause |-> AbsentField])

\* throwRawError(res, method, path)
ThrowRawErrorResult(call, res) ==
  Outcome("throwRawError", "PodmanError", res.status, RawErrorMessage(BodyText(res)),
          call, NoValue, TRUE)

\* doFetch rejects: the connection cannot be made, or the deadline
\* AbortSignal.timeout(timeout) aborts the exchange. A call that passes
\* signal: null has no deadline.
DoFetchRejects(failure, hasDeadline) ==
  \/ failure = "connect"
  \/ failure = "timeout" /\ hasDeadline

\* Headers, as name and value.
Accept == [name |-> "Accept", value |-> "application/json"]
ContentTypeJson == [name |-> "Content-Type", value |-> "application/json"]

\* Kinds of BodyInit other than a string: a Uint8Array, a ReadableStream, a Blob.
Bytes(text) == [t |-> "bytes", text |-> text]
StreamBody(text) == [t |-> "stream", text |-> text]
Blob(text) == [t |-> "blob", text |-> text]

\* const { timeout = 30_000 } = opts; the option is <<>> when it is not given.
DefaultTimeout == 30000
Timeout(opt) == IF opt = <<>> THEN DefaultTimeout ELSE opt[1]

\* A request that declares a JSON body only for a truthy argument.
RequestInit_whenTruthy(body) ==
  [headers |-> {Accept} \cup (IF Truthy(body) THEN {ContentTypeJson} ELSE {}),
   body |-> IF Truthy(body) THEN Str(JSONStringify(body)) ELSE Undefined,
   signal |-> "undefined"]

\* request: the init it hands to doFetch for its body argument.
RequestInit(body) ==
  [headers |-> {Accept} \cup (IF body # Undefined THEN {ContentTypeJson} ELSE {}),
   body |-> IF body # Undefined THEN Str(JSONStringify(body)) ELSE Undefined,
   signal |-> "undefined"]

\* requestRaw: { body, headers }
RequestRawInit(body, headers) ==
  [headers |-> headers, body |-> body, signal |-> "undefined"]

\* requestStream: { headers: { "Accept": "application/json" }, signal: null }
RequestStreamInit ==
  [headers |-> {Accept}, body |-> Undefined, signal |-> "null"]

\* A doFetch that puts the deadline on every exchange.
Deadline_always(signal, timeout) == <<timeout>>

\* doFetch: init.signal !== undefined ? (init.signal ?? undefined)
\*                                     : AbortSignal.timeout(timeout)
\* The deadline of the exchange in ms, <<>> when it has none.
Deadline(signal, timeout) ==
  IF signal # "undefined" THEN <<>> ELSE <<timeout>>

\* The backend a transport of this kind sends its exchanges through.
InnerKind(k) == IF k = "ssh" THEN "unix" ELSE k

\* What performs the exchange: fetch, or nodeRequest over node:http(s).
Via(rt, k) == IF rt = "node" /\ k \in {"unix", "tls"} THEN "nodeRequest" ELSE "fetch"

\* The body that goes out: fetch sends every BodyInit; nodeRequest writes a
\* string, an ArrayBuffer, a Uint8Array or a ReadableStream, and ends the request
\* without a body for anything else.
WireBody(via, body) ==
  IF via = "fetch" \/ body.t \in {"str", "bytes", "stream"} THEN body ELSE Undefined

\* const { apiVersion = "4.0.0" } = opts; the option is <<>> when it is not given.
DefaultApiVersion == "4.0.0"
ApiVersion(opt) == IF opt = <<>> THEN DefaultApiVersion ELSE opt[1]

\* const base = `http://localhost/v${apiVersion}/libpod` over a Unix socket,
\* `${uri}/v${apiVersion}/libpod` over TCP.
Base(o) ==
  <<IF o.kind = "unix" THEN "http://localhost" ELSE o.target, "/v", ApiVersion(o.apiVersion),
    "/libpod">>

\* doFetch(method, path, init) of a transport made with options o: the exchange
\* it performs.
DoFetch(rt, o, call, init) ==
  [method |-> call.method, path |-> call.path, headers |-> init.headers,
   body |-> init.body, deadline |-> Deadline(init.signal, Timeout(o.timeout)),
   via |-> Via(rt, o.kind), wireBody |-> WireBody(Via(rt, o.kind), init.body),
   url |-> Base(o) \o <<call.path>>,
   socketPath |-> IF o.kind = "unix" THEN <<o.target>> ELSE <<>>]

\* A call that performs a failed exchange a second time.
Exchanges_retried(req, failure) == IF failure # "none" THEN <<req, req>> ELSE <<req>>

\* The exchanges one call performs: await doFetch(...), once, in no loop.
Exchanges(req, failure) == <<req>>

\* A transport that reports a failed exchange as a PodmanError.
FetchFailed_asPodmanError(op, failure, call) ==
  Outcome(op, "PodmanError", 0, <<failure>>, call, NoValue, FALSE)

\* await doFetch(...) throws: the call rejects with what doFetch rejected with.
FetchFailed(op, failure, call) ==
  Outcome(op, "Error", 0, <<failure>>, call, NoValue, FALSE)

\* ------------------------------------------------------------------- state
VARIABLES
  \* parsedEvents (one call)
  wire,         \* the bytes the events endpoint sends on this stream
  pos,          \* how many of them the reader has received
  utf8Pending,  \* TextDecoderStream: bytes of an incomplete character
  buffer,       \* let buffer
  yielded,      \* the records yielded so far, in order
  dpc,          \* "reading" | "done" | "stopped" (the consumer returned early)
  splitInLine,  \* observer: some chunk ended inside a line or a character
  turnYield,    \* how many records the last turn of the loop yields
  reader,       \* the reader on the decoded stream: "none" | "locked" | "released"
  upstream,     \* the response body: "none" | "open" | "ended" | "cancelled"
  \* one HTTP exchange
  call,         \* [method, path] of the call
  res,          \* the response doFetch resolves with: [status, hasBody, body]
  outcome,      \* what the call settled with, kind "none" while it is pending
  fetchFailure, \* why no response arrives: "none" | "connect" | "timeout"
  args,         \* the arguments of the call: [body, rawBody, headers]
  sent,         \* the exchanges performed, in order
  \* one transport, from its construction to its close() calls
  runtime,      \* "deno" | "node": which build of the library runs
  timeoutOpt,   \* the timeout option in ms: <<>> | <<ms>>
  apiVersion,   \* the apiVersion option: <<>> | <<version>>
  kind,         \* "unix" | "tcp" | "tls" | "ssh"
  auth,         \* the credential option: "none" | "latin1" | "wide"
  stderrOut,    \* what the ssh process writes to stderr before it exits
  credential,   \* the auth option as given: its members, <<>> when absent
  authHeader,   \* const authHeader: <<>> (undefined) | <<text>>
  authReturns,  \* what the getAuthHeader() calls returned, in order
  sshOpts,      \* [remoteSocketPath, port, identityFile, sshOptions] as given
  spawned,      \* the argument lists ssh was started with, in order
  tpc,          \* where the construction is, then "ready", "rejected" or "threw"
  tempDir,      \* "none" | "exists" | "removed"
  child,        \* the ssh process: "none" | "running" | "exited" | "failed"
  signalled,    \* a SIGTERM was delivered to the running process
  processExited,\* let processExited
  socketFile,   \* the forwarded socket exists in tempDir
  deadlinePassed, \* Date.now() >= deadline
  uncaught,     \* an 'error' event was emitted with no listener
  errText,      \* const errText
  error,        \* the message of the error the construction ended with
  httpClient,   \* the pooled client or agent: "none" | "open" | "closed"
  removePending,\* a removal of tempDir was started and has not finished
  closeStats,   \* counts: close() calls, returns, throws, and release actions
  steps,        \* the cleanup steps taken so far, each with the state of the process
  \* the body of one streamed response
  source,       \* the chunks the server has still to send
  queue,        \* the chunks in the queue of the ReadableStream, not yet read
  consumed,     \* the chunks the consumer has read
  \* a second parsedEvents call on the same transport
  peer          \* its [wire, pos, utf8Pending, buffer, yielded, dpc]

decoderVars == <<wire, pos, utf8Pending, buffer, yielded, dpc, splitInLine,
                 turnYield, reader, upstream>>
exchangeVars == <<call, res, outcome, fetchFailure, args, sent>>
lifecycleVars == <<runtime, timeoutOpt, apiVersion, kind, auth, credential, authHeader, authReturns,
                   stderrOut, sshOpts, spawned, tpc, tempDir, child, signalled,
                   processExited, socketFile, deadlinePassed, uncaught, errText, error,
                   httpClient, removePending, closeStats, steps>>
streamVars == <<source, queue, consumed>>
peerVars == <<peer>>
vars == <<decoderVars, exchangeVars, lifecycleVars, streamVars, peerVars>>

\* The bytes a stream is made of.
WireBytes == {NL, SP, "0", "1", LEAD, CONT}

RECURSIVE SeqsUpTo(_, _)
\* All sequences over S of length at most n.
SeqsUpTo(S, n) ==
  IF n = 0 THEN {<<>>}
  ELSE LET shorter == SeqsUpTo(S, n - 1)
       IN shorter \cup {Append(s, x) : s \in {t \in shorter : Len(t) = n - 1}, x \in S}

\* No stream is open.
DecoderIdle ==
  /\ wire = <<>>
  /\ pos = 0
  /\ utf8Pending = <<>>
  /\ buffer = <<>>
  /\ yielded = <<>>
  /\ dpc = "done"
  /\ splitInLine = FALSE
  /\ turnYield = 0
  /\ reader = "none"
  /\ upstream = "none"

Pending == Outcome("none", "none", 0, <<>>, [method |-> "", path |-> ""], NoValue, FALSE)

NoArgs == [body |-> Undefined, rawBody |-> Undefined, headers |-> {}]
NoResponse == [status |-> 0, hasBody |-> FALSE, body |-> <<>>]

\* No call is in flight.
ExchangeIdle ==
  /\ call = [method |-> "", path |-> ""]
  /\ res = NoResponse
  /\ outcome = Pending
  /\ fetchFailure = "none"
  /\ args = NoArgs
  /\ sent = <<>>

\* ------------------------------------------------------- the auth header
\* A credential is the sequence of its members, in the order they were written;
\* <<>> when the auth option is not given.
Member(key, value) == [key |-> key, value |-> value]
UserName == <<"u", "s", "e", "r", "n", "a", "m", "e">>
Password == <<"p", "a", "s", "s", "w", "o", "r", "d">>
IdentityToken == <<"i", "d", "e", "n", "t", "i", "t", "y", "T", "o", "k", "e", "n">>

RECURSIVE MembersJson(_)
MembersJson(ms) ==
  IF ms = <<>> THEN <<>>
  ELSE <<QUOTE>> \o Head(ms).key \o <<QUOTE, ":", QUOTE>> \o Escape(Head(ms).value) \o <<QUOTE>>
         \o (IF Len(ms) > 1 THEN <<",">> ELSE <<>>) \o MembersJson(Tail(ms))

\* JSON.stringify(opts.auth)
CredentialJson(cred) == <<"{">> \o MembersJson(cred) \o <<"}">>

\* The code unit of a character.
CharCode(c) ==
  CASE c = "{" -> 123 [] c = "}" -> 125 [] c = ":" -> 58 [] c = "," -> 44
    [] c = "u" -> 117 [] c = "s" -> 115 [] c = "e" -> 101 [] c = "r" -> 114
    [] c = "n" -> 110 [] c = "a" -> 97 [] c = "m" -> 109 [] c = "p" -> 112
    [] c = "w" -> 119 [] c = "o" -> 111 [] c = "d" -> 100 [] c = "i" -> 105
    [] c = "t" -> 116 [] c = "y" -> 121 [] c = "k" -> 107 [] c = "T" -> 84
    [] c = QUOTE -> 34 [] c = BACKSLASH -> 92 [] c = "é" -> 233 [] c = "€" -> 8364

\* The base64 alphabet.
B64 ==
  <<"A", "B", "C", "D", "E", "F", "G", "H", "I", "J", "K", "L", "M", "N", "O", "P",
    "Q", "R", "S", "T", "U", "V", "W", "X", "Y", "Z", "a", "b", "c", "d", "e", "f",
    "g", "h", "i", "j", "k", "l", "m", "n", "o", "p", "q", "r", "s", "t", "u", "v",
    "w", "x", "y", "z", "0", "1", "2", "3", "4", "5", "6", "7", "8", "9", "+", "/">>

\* Three bytes as four characters.
Encode3(b1, b2, b3) ==
  <<B64[(b1 \div 4) + 1], B64[((b1 % 4) * 16 + (b2 \div 16)) + 1],
    B64[((b2 % 16) * 4 + (b3 \div 64)) + 1], B64[(b3 % 64) + 1]>>

RECURSIVE Base64From(_, _)
\* The base64 text of the bytes from position i on.
Base64From(bytes, i) ==
  IF i > Len(bytes) THEN <<>>
  ELSE IF i = Len(bytes)
  THEN SubSeq(Encode3(bytes[i], 0, 0), 1, 2) \o <<"=", "=">>
  ELSE IF i + 1 = Len(bytes)
  THEN SubSeq(Encode3(bytes[i], bytes[i + 1], 0), 1, 3) \o <<"=">>
  ELSE Encode3(bytes[i], bytes[i + 1], bytes[i + 2]) \o Base64From(bytes, i + 3)

\* The base64 text of a byte sequence, padded with = to a multiple of four.
Base64(bytes) == Base64From(bytes, 1)

\* A btoa that leaves the padding out.
Btoa_unpadded(text) ==
  IF \E i \in 1..Len(text) : CharCode(text[i]) > 255 THEN Fail
  ELSE Ok(SelectSeq(Base64([i \in 1..Len(text) |-> CharCode(text[i])]), LAMBDA c : c # "="))

\* btoa(text): each character is one byte, its code unit; a character above
\* U+00FF makes it throw InvalidCharacterError (Fail).
Btoa(text) ==
  IF \E i \in 1..Len(text) : CharCode(text[i]) > 255 THEN Fail
  ELSE Ok(Base64([i \in 1..Len(text) |-> CharCode(text[i])]))

\* opts.auth ? btoa(JSON.stringify(opts.auth)) : undefined; <<>> is undefined.
AuthHeader(cred) == IF cred = <<>> THEN <<>> ELSE <<Btoa(CredentialJson(cred)).val>>

\* Credentials of each class of the auth option.
CredentialsOf(au) ==
  CASE au = "none" -> {<<>>}
    [] au = "latin1" ->
         {<<Member(UserName, <<"u">>), Member(Password, <<"p">>)>>,
          <<Member(UserName, <<>>), Member(Password, <<"é", QUOTE>>)>>,
          <<Member(Password, <<"p", BACKSLASH>>), Member(UserName, <<"u", "s">>)>>,
          <<Member(IdentityToken, <<"t">>)>>,
          <<Member(IdentityToken, <<"t", "o", "k">>)>>}
    [] au = "wide" -> {<<Member(UserName, <<"u">>), Member(Password, <<"€">>)>>}

DefaultCredential(au) ==
  CASE au = "none" -> <<>>
    [] au = "latin1" -> <<Member(UserName, <<"u">>), Member(Password, <<"p">>)>>
    [] au = "wide" -> <<Member(UserName, <<"u">>), Member(Password, <<"€">>)>>

Host == "user@remote"

\* ssh options: a field is <<>> when the caller did not give it.
NoSshOpts == [remoteSocketPath |-> <<>>, port |-> <<>>, identityFile |-> <<>>,
              sshOptions |-> <<>>]

\* remoteSocketPath = "/run/podman/podman.sock", port = 22
DefaultRemoteSocketPath == "/run/podman/podman.sock"
DefaultPort == 22
\* `${tempDir}/podman.sock`
LocalSocket == "<tempDir>/podman.sock"

\* The options a caller hands to createTransport or createTcpTransport.
CallerSocket == "/run/podman/podman.sock"
CallerUri == "http://podman:8080"
FactoryOptions(k, ver, opt, cred) ==
  [kind |-> k, target |-> IF k = "unix" THEN CallerSocket ELSE CallerUri,
   apiVersion |-> ver, timeout |-> opt, auth |-> cred]

\* An inner transport made with its own defaults in place of the caller's
\* apiVersion and timeout.
InnerOptions_ownDefaults(ver, opt, cred) ==
  [kind |-> "unix", target |-> LocalSocket, apiVersion |-> <<>>, timeout |-> <<>>,
   auth |-> cred]

\* createTransport({ socketPath: localSocket, apiVersion, timeout, auth }): the
\* options of the tunnel's inner transport.
InnerOptions(ver, opt, cred) ==
  [kind |-> "unix", target |-> LocalSocket, apiVersion |-> ver, timeout |-> opt,
   auth |-> cred]

\* The options of the transport that performs the exchanges.
TransportOptions(k, ver, opt, cred) ==
  IF k = "ssh" THEN InnerOptions(ver, opt, cred) ELSE FactoryOptions(k, ver, opt, cred)

\* o.includes(needle), on an argument written as a sequence of fragments.
Includes(o, needle) == \E i \in 1..Len(o) : o[i] = needle

\* The argument list ssh is started with. An argument is a sequence of
\* fragments; -o and -i are followed by their value as a separate argument.
SshArgs(o) ==
  LET remote == IF o.remoteSocketPath = <<>> THEN DefaultRemoteSocketPath
                ELSE o.remoteSocketPath[1]
      port == IF o.port = <<>> THEN DefaultPort ELSE o.port[1]
      hasStrictHostKeyChecking ==
        \E i \in 1..Len(o.sshOptions) : Includes(o.sshOptions[i], "StrictHostKeyChecking")
      identity == IF o.identityFile # <<>> /\ o.identityFile[1] # ""
                  THEN << <<"-i">>, <<o.identityFile[1]>> >> ELSE <<>>
  IN << <<"-N">>, <<"-L">>, <<LocalSocket, ":", remote>>, <<"-p">>, <<ToString(port)>> >>
       \o (IF hasStrictHostKeyChecking THEN <<>>
           ELSE << <<"-o">>, <<"StrictHostKeyChecking", "=", "accept-new">> >>)
       \o << <<"-o">>, <<"ExitOnForwardFailure", "=", "yes">> >>
       \o identity
       \o o.sshOptions
       \o << <<Host>> >>

NoCloses == [calls |-> 0, returned |-> 0, raised |-> 0,
             clientCloses |-> 0, signals |-> 0, removes |-> 0]

\* No transport is under construction.
LifecycleIdle ==
  /\ runtime = "deno"
  /\ timeoutOpt = <<>>
  /\ apiVersion = <<>>
  /\ kind = "unix"
  /\ auth = "none"
  /\ stderrOut = <<>>
  /\ credential = <<>>
  /\ authHeader = <<>>
  /\ authReturns = <<>>
  /\ sshOpts = NoSshOpts
  /\ spawned = <<>>
  /\ tpc = "idle"
  /\ tempDir = "none"
  /\ child = "none"
  /\ signalled = FALSE
  /\ processExited = FALSE
  /\ socketFile = FALSE
  /\ deadlinePassed = FALSE
  /\ uncaught = FALSE
  /\ errText = <<>>
  /\ error = <<>>
  /\ httpClient = "none"
  /\ removePending = FALSE
  /\ closeStats = NoCloses
  /\ steps = <<>>

\* No response body is being streamed.
StreamIdle ==
  /\ source = <<>>
  /\ queue = <<>>
  /\ consumed = <<>>

NoPeer == [wire |-> <<>>, pos |-> 0, utf8Pending |-> <<>>, buffer |-> <<>>,
           yielded |-> <<>>, dpc |-> "done"]

\* No second parsedEvents call runs.
PeerIdle == peer = NoPeer

DecoderInit ==
  /\ StreamIdle
  /\ PeerIdle
  /\ ExchangeIdle
  /\ LifecycleIdle
  /\ wire \in SeqsUpTo(WireBytes, MaxWire)
  /\ pos = 0
  /\ utf8Pending = <<>>
  /\ buffer = <<>>
  /\ yielded = <<>>
  /\ dpc = "reading"
  /\ splitInLine = FALSE
  /\ turnYield = 0
  /\ reader = "locked"
  /\ upstream = "open"

\* reader.read() resolves with the text of the next k bytes: one turn of the loop.
\* TextDecoderStream enqueues nothing for a chunk that decodes to the empty string.
ReadChunk(k) ==
  /\ dpc = "reading"
  /\ pos + k <= Len(wire)
  /\ LET d == Utf8Decode(utf8Pending, SubSeq(wire, pos + 1, pos + k), <<>>)
         turn == IF d.text = <<>> THEN [buffer |-> buffer, out |-> yielded]
                 ELSE LoopBody(buffer, yielded, d.text)
     IN /\ utf8Pending' = d.pending
        /\ buffer' = turn.buffer
        /\ yielded' = turn.out
        /\ turnYield' = Len(turn.out) - Len(yielded)
        /\ splitInLine' = (splitInLine \/ (pos + k < Len(wire) /\
                              (turn.buffer # <<>> \/ d.pending # <<>>)))
  /\ pos' = pos + k
  /\ UNCHANGED <<wire, dpc, reader, upstream, exchangeVars, lifecycleVars, streamVars, peerVars>>

\* The byte stream has ended inside a character: the decoder flushes U+FFFD as a
\* last chunk, one more turn of the loop.
ReadFlush ==
  /\ dpc = "reading"
  /\ pos = Len(wire)
  /\ utf8Pending # <<>>
  /\ LET turn == LoopBody(buffer, yielded, Utf8Flush(utf8Pending))
     IN /\ buffer' = turn.buffer
        /\ yielded' = turn.out
        /\ turnYield' = Len(turn.out) - Len(yielded)
  /\ utf8Pending' = <<>>
  /\ UNCHANGED <<wire, pos, dpc, splitInLine, reader, upstream, exchangeVars, lifecycleVars, streamVars, peerVars>>

\* reader.read() resolves with done (the response body has ended): the loop ends,
\* the rest of the buffer is tried, and finally reader.releaseLock().
ReadDone ==
  /\ dpc = "reading"
  /\ pos = Len(wire)
  /\ utf8Pending = <<>>
  /\ yielded' = FinalParse(buffer, yielded)
  /\ dpc' = "done"
  /\ turnYield' = 0
  /\ reader' = "released"
  /\ upstream' = "ended"
  /\ UNCHANGED <<wire, pos, utf8Pending, buffer, splitInLine, exchangeVars, lifecycleVars, streamVars, peerVars>>

\* The consumer stops at the n-th record of this turn (a break in its for await
\* calls return() on the generator, suspended at that yield): the rest of the
\* turn is not yielded and the finally block runs, reader.releaseLock(), which
\* unlocks the decoded stream and cancels nothing.
StopIterating(n) ==
  /\ dpc = "reading"
  /\ n \in 1..turnYield
  /\ yielded' = SubSeq(yielded, 1, Len(yielded) - turnYield + n)
  /\ dpc' = "stopped"
  /\ turnYield' = 0
  /\ reader' = "released"
  /\ UNCHANGED <<wire, pos, utf8Pending, buffer, splitInLine, upstream,
                 exchangeVars, lifecycleVars, streamVars, peerVars>>

DecoderNext ==
  \/ \E k \in 1..MaxWire : ReadChunk(k)
  \/ ReadFlush
  \/ ReadDone
  \/ \E n \in 1..MaxWire : StopIterating(n)

SpecDecoder == DecoderInit /\ [][DecoderNext]_vars

\* ---------------------------------------------------------------- exchanges
\* The characters a response body is made of.
BodyChars == {SP, NBSP, "0", "1", "{", "}", "M", "C"}
Statuses == {200, 399, 400, 500}
\* Bodies around the length request quotes of a body that is not JSON: a run of
\* one letter, after at most one other character.
Filler == "x"
LongBodies ==
  {s \o [i \in 1..n |-> Filler] :
     s \in SeqsUpTo(BodyChars, 1),
     n \in {InvalidJsonQuote - 1, InvalidJsonQuote, InvalidJsonQuote + 1}}
Bodies == SeqsUpTo(BodyChars, MaxBody) \cup LongBodies
Calls == {[method |-> "GET", path |-> "/events"], [method |-> "POST", path |-> "/fail"]}

FetchFailures == {"connect", "timeout"}

\* A call is about to be made: the server answers with a response, or no
\* response arrives.
ExchangeInit ==
  /\ StreamIdle
  /\ PeerIdle
  /\ DecoderIdle
  /\ LifecycleIdle
  /\ call \in Calls
  /\ \/ /\ fetchFailure = "none"
        /\ res \in {r \in [status : Statuses, hasBody : BOOLEAN, body : Bodies] :
                       ~r.hasBody => r.body = <<>>}
     \/ /\ fetchFailure \in FetchFailures
        /\ res = NoResponse
  /\ outcome = Pending
  /\ args = NoArgs
  /\ sent = <<>>

\* request(method, path, body)
Request ==
  /\ outcome.kind = "none"
  /\ LET req == DoFetch(runtime, TransportOptions(kind, apiVersion, timeoutOpt, credential), call,
                        RequestInit(args.body))
     IN /\ sent' = sent \o Exchanges(req, fetchFailure)
        /\ outcome' = IF DoFetchRejects(fetchFailure, req.deadline # <<>>)
                       THEN FetchFailed("request", fetchFailure, call)
                       ELSE RequestResult(call, res)
  /\ UNCHANGED <<call, res, fetchFailure, args, decoderVars, lifecycleVars, streamVars, peerVars>>

\* requestRaw(method, path, body, headers)
RequestRaw ==
  /\ outcome.kind = "none"
  /\ LET req == DoFetch(runtime, TransportOptions(kind, apiVersion, timeoutOpt, credential), call,
                        RequestRawInit(args.rawBody, args.headers))
     IN /\ sent' = sent \o Exchanges(req, fetchFailure)
        /\ outcome' = IF DoFetchRejects(fetchFailure, req.deadline # <<>>)
                       THEN FetchFailed("requestRaw", fetchFailure, call)
                       ELSE RequestRawResult(call, res)
  /\ UNCHANGED <<call, res, fetchFailure, args, decoderVars, lifecycleVars, streamVars, peerVars>>

\* requestStream(method, path). With no deadline, a requestStream whose response
\* never arrives stays pending.
RequestStream ==
  /\ outcome.kind = "none"
  /\ LET req == DoFetch(runtime, TransportOptions(kind, apiVersion, timeoutOpt, credential), call,
                        RequestStreamInit)
     IN /\ fetchFailure = "timeout" => req.deadline # <<>>
        /\ sent' = sent \o Exchanges(req, fetchFailure)
        /\ outcome' = IF DoFetchRejects(fetchFailure, req.deadline # <<>>)
                       THEN FetchFailed("requestStream", fetchFailure, call)
                       ELSE RequestStreamResult(call, res)
  /\ UNCHANGED <<call, res, fetchFailure, args, decoderVars, lifecycleVars, streamVars, peerVars>>

\* A caller of requestRaw that got a status other than 200 hands the response
\* to throwRawError.
ThrowRawError ==
  /\ outcome.op = "requestRaw"
  /\ outcome.kind = "response"
  /\ res.status # 200
  /\ outcome' = ThrowRawErrorResult(call, res)
  /\ UNCHANGED <<call, res, fetchFailure, args, sent, decoderVars, lifecycleVars, streamVars, peerVars>>

ExchangeNext ==
  \/ Request
  \/ RequestRaw
  \/ RequestStream
  \/ ThrowRawError

SpecExchange == ExchangeInit /\ [][ExchangeNext]_vars

\* ---------------------------------------------------------------- API calls
\* What a Transport's request may resolve with as json, and the fields of an object.
FieldValues ==
  {AbsentField, StrField(<<"boom">>), StrField(<<"why">>), StrField(<<>>),
   NumField, NullField, ObjField}
JsValues ==
  {Undefined, Null, Bool(TRUE), Bool(FALSE), [t |-> "num", digits |-> <<"0">>],
   [t |-> "num", digits |-> <<"1">>], Str(<<>>), Str(<<"boom">>), EmptyArray}
    \cup {[t |-> "obj", message |-> m, cause |-> c] : m \in FieldValues, c \in FieldValues}
ApiCalls == {[method |-> "POST", path |-> "/system/prune"],
             [method |-> "GET", path |-> "/system/df"]}

\* SystemApi.prune, SystemApi.df: the transport's request has resolved.
ApiInit ==
  /\ StreamIdle
  /\ PeerIdle
  /\ DecoderIdle
  /\ LifecycleIdle
  /\ call \in ApiCalls
  /\ res = NoResponse
  /\ fetchFailure = "none"
  /\ args = NoArgs
  /\ sent = <<>>
  /\ \E status \in Statuses, json \in JsValues :
        outcome = Outcome("request", "resolved", status, <<>>, call, json, TRUE)

\* if (status !== 200) throw createPodmanError(status, json, method, path):
\* the json field keeps the value the error was made from.
CreatePodmanError ==
  /\ outcome.op = "request"
  /\ outcome.status # 200
  /\ outcome' = Outcome("createPodmanError", "PodmanError", outcome.status,
                        ExtractMessage(outcome.json), call, outcome.json, TRUE)
  /\ UNCHANGED <<call, res, fetchFailure, args, sent, decoderVars, lifecycleVars, streamVars, peerVars>>

\* return json
ReturnJson ==
  /\ outcome.op = "request"
  /\ outcome.status = 200
  /\ outcome' = Outcome("return", "returned", outcome.status, <<>>, call, outcome.json, TRUE)
  /\ UNCHANGED <<call, res, fetchFailure, args, sent, decoderVars, lifecycleVars, streamVars, peerVars>>

ApiNext ==
  \/ CreatePodmanError
  \/ ReturnJson

SpecApi == ApiInit /\ [][ApiNext]_vars

\* ---------------------------------------------------------------- lifecycle
Runtimes == {"deno", "node"}
Kinds == {"unix", "tcp", "tls", "ssh"}
\* The auth option: none, one whose JSON is Latin-1, one with a character above
\* U+00FF (btoa throws InvalidCharacterError on it).
Auths == {"none", "latin1", "wide"}
StderrTexts == {<<>>, <<NL>>, <<"ssh: connect to host remote: Connection refused", NL>>}

\* btoa(JSON.stringify(opts.auth)) throws.
FactoryThrows(au) == au = "wide"

\* The pooled client after the factory ran (Deno.createHttpClient, https.Agent):
\* the Deno Unix-socket factory creates it before it encodes the credential.
CreatedClient(rt, k, au) ==
  CASE rt = "deno" /\ k = "unix" -> "open"
    [] k = "tls" -> IF FactoryThrows(au) THEN "none" ELSE "open"
    [] OTHER -> "none"

\* Whether closeFn calls close() or destroy() on a pooled client.
ClosesClient(rt, k) ==
  \/ rt = "deno" /\ k \in {"unix", "tls"}
  \/ rt = "node" /\ k = "tls"

\* Deno.HttpClient.close() on a client that is already closed throws BadResource;
\* https.Agent.destroy() can be repeated.
ClientCloseThrows(rt, k, client) ==
  rt = "deno" /\ ClosesClient(rt, k) /\ client = "closed"

\* A kill that reaches no process.
KillDelivers_never(c) == FALSE

\* child.kill("SIGTERM") delivers the signal only to a process that still runs
\* (Deno throws otherwise, which is caught; Node returns false).
KillDelivers(c) == c = "running"

TunnelFailedMessage(text) ==
  <<"SSH tunnel to ", Host, " failed: ">>
    \o (IF Trim(text) # <<>> THEN Trim(text) ELSE <<"socket not created within 10s">>)

UnavailableMessage ==
  <<"SSH tunnel to ", Host, " failed: ssh command not available (", "ENOENT", ")">>

\* A construction is about to start.
ConstructionStart ==
  /\ runtime \in Runtimes
  /\ timeoutOpt = <<>>
  /\ apiVersion = <<>>
  /\ kind \in Kinds
  /\ auth \in Auths
  /\ stderrOut \in StderrTexts
  /\ authHeader = <<>>
  /\ authReturns = <<>>
  /\ spawned = <<>>
  /\ tpc = IF kind = "ssh" THEN "start" ELSE "create"
  /\ tempDir = "none"
  /\ child = "none"
  /\ signalled = FALSE
  /\ processExited = FALSE
  /\ socketFile = FALSE
  /\ deadlinePassed = FALSE
  /\ uncaught = FALSE
  /\ errText = <<>>
  /\ error = <<>>
  /\ httpClient = "none"
  /\ removePending = FALSE
  /\ closeStats = NoCloses
  /\ steps = <<>>

LifecycleInit ==
  /\ StreamIdle
  /\ PeerIdle
  /\ DecoderIdle
  /\ ExchangeIdle
  /\ sshOpts = NoSshOpts
  /\ ConstructionStart
  /\ credential = DefaultCredential(auth)

options == <<runtime, timeoutOpt, apiVersion, kind, auth, credential, stderrOut, sshOpts>>
others == <<decoderVars, exchangeVars, streamVars, peerVars>>

\* One entry of the log of cleanup steps: the step and the state of the ssh
\* process when it was taken.
Step(name, c) == [step |-> name, child |-> c]

\* createTransport / createTcpTransport (not over SSH).
Create ==
  /\ tpc = "create"
  /\ authHeader' = IF FactoryThrows(auth) THEN authHeader ELSE AuthHeader(credential)
  /\ httpClient' = CreatedClient(runtime, kind, auth)
  /\ tpc' = IF FactoryThrows(auth) THEN "threw" ELSE "ready"
  /\ error' = IF FactoryThrows(auth) THEN <<"InvalidCharacterError">> ELSE error
  /\ UNCHANGED <<options, others, steps, authReturns, spawned, tempDir, child, signalled, processExited, socketFile,
                 deadlinePassed, uncaught, errText, removePending, closeStats>>

\* createSshTransport: the temporary directory.
MakeTempDir ==
  /\ tpc = "start"
  /\ \/ /\ tempDir' = "exists"
        /\ tpc' = "spawn"
        /\ UNCHANGED error
     \/ /\ tpc' = "rejected"
        /\ error' = <<"mkdtemp failed">>
        /\ UNCHANGED tempDir
  /\ steps' = IF tpc' = "rejected" THEN Append(steps, Step("raise", child)) ELSE steps
  /\ UNCHANGED <<options, others, authHeader, authReturns, spawned, child, signalled, processExited, socketFile,
                 deadlinePassed, uncaught, errText, httpClient, removePending, closeStats>>

\* createSshTransport: the ssh process starts.
SpawnOk ==
  /\ tpc = "spawn"
  /\ child' = "running"
  /\ tpc' = "poll"
  /\ spawned' = Append(spawned, SshArgs(sshOpts))
  /\ UNCHANGED <<options, others, steps, authHeader, authReturns, tempDir, signalled, processExited, socketFile,
                 deadlinePassed, uncaught, errText, error, httpClient, removePending, closeStats>>

\* createSshTransport: ssh cannot be started. Deno's spawn() throws: the directory
\* is removed and the call rejects. Node's spawn() returns a child that emits
\* 'error' (no listener is attached) and never 'exit'; the call goes on to poll.
SpawnFails ==
  /\ tpc = "spawn"
  /\ IF runtime = "deno"
     THEN /\ tempDir' = "removed"
          /\ error' = UnavailableMessage
          /\ tpc' = "rejected"
          /\ steps' = steps \o <<Step("remove", child), Step("raise", child)>>
          /\ UNCHANGED <<child, uncaught>>
     ELSE /\ child' = "failed"
          /\ uncaught' = TRUE
          /\ tpc' = "poll"
          /\ UNCHANGED <<tempDir, error, steps>>
  /\ spawned' = Append(spawned, SshArgs(sshOpts))
  /\ UNCHANGED <<options, others, authHeader, authReturns, signalled, processExited, socketFile,
                 deadlinePassed, errText, httpClient, removePending, closeStats>>

\* while (Date.now() < deadline && !processExited)
PollCheck ==
  /\ tpc = "poll"
  /\ tpc' = IF deadlinePassed \/ processExited THEN "notReady" ELSE "stat"
  /\ UNCHANGED <<options, others, steps, authHeader, authReturns, spawned, tempDir, child, signalled, processExited, socketFile,
                 deadlinePassed, uncaught, errText, error, httpClient, removePending, closeStats>>

\* await stat(localSocket): found, ready = true; not found, sleep 100 ms.
Stat ==
  /\ tpc = "stat"
  /\ tpc' = IF socketFile THEN "createInner" ELSE "sleep"
  /\ UNCHANGED <<options, others, steps, authHeader, authReturns, spawned, tempDir, child, signalled, processExited, socketFile,
                 deadlinePassed, uncaught, errText, error, httpClient, removePending, closeStats>>

Wake ==
  /\ tpc = "sleep"
  /\ tpc' = "poll"
  /\ UNCHANGED <<options, others, steps, authHeader, authReturns, spawned, tempDir, child, signalled, processExited, socketFile,
                 deadlinePassed, uncaught, errText, error, httpClient, removePending, closeStats>>

\* if (!ready): child.kill("SIGTERM")
KillOnFailure ==
  /\ tpc = "notReady"
  /\ signalled' = (signalled \/ KillDelivers(child))
  /\ tpc' = "drain"
  /\ steps' = Append(steps, Step("kill", child))
  /\ UNCHANGED <<options, others, authHeader, authReturns, spawned, tempDir, child, processExited, socketFile,
                 deadlinePassed, uncaught, errText, error, httpClient, removePending, closeStats>>

\* Promise.race([drainStderr, 5 s]): stderr ended, or the cap elapsed first.
Drain ==
  /\ tpc = "drain"
  /\ \/ /\ child \in {"exited", "failed"}
        /\ errText' = IF child = "exited" THEN stderrOut ELSE <<>>
     \/ errText' = <<>>
  /\ tpc' = "awaitExit"
  /\ steps' = Append(steps, Step("drain", child))
  /\ UNCHANGED <<options, others, authHeader, authReturns, spawned, tempDir, child, signalled, processExited, socketFile,
                 deadlinePassed, uncaught, error, httpClient, removePending, closeStats>>

\* await child.status (Deno) settles when the process has exited; await
\* exitPromise (Node) settles when the 'exit' listener has run.
ExitAwaited_not(rt, c, observed) == TRUE

ExitAwaited(rt, c, observed) == IF rt = "deno" THEN c = "exited" ELSE observed

\* await child.status (Deno) / await exitPromise (Node, resolved by the 'exit'
\* listener), then the directory is removed and the error thrown.
AwaitExitAndReject ==
  /\ tpc = "awaitExit"
  /\ ExitAwaited(runtime, child, processExited)
  /\ tempDir' = "removed"
  /\ socketFile' = FALSE
  /\ error' = TunnelFailedMessage(errText)
  /\ tpc' = "rejected"
  /\ steps' = steps \o <<Step("exit", child), Step("remove", child), Step("raise", child)>>
  /\ UNCHANGED <<options, others, authHeader, authReturns, spawned, child, signalled, processExited,
                 deadlinePassed, uncaught, errText, httpClient, removePending, closeStats>>

\* const inner = createTransport({socketPath: localSocket, ...}): when it throws,
\* createSshTransport rejects with what it threw.
CreateInner ==
  /\ tpc = "createInner"
  /\ authHeader' = IF FactoryThrows(auth) THEN authHeader
                   ELSE AuthHeader(InnerOptions(apiVersion, timeoutOpt, credential).auth)
  /\ httpClient' = CreatedClient(runtime, InnerKind(kind), auth)
  /\ tpc' = IF FactoryThrows(auth) THEN "rejected" ELSE "ready"
  /\ error' = IF FactoryThrows(auth) THEN <<"InvalidCharacterError">> ELSE error
  /\ steps' = IF FactoryThrows(auth) THEN Append(steps, Step("raise", child)) ELSE steps
  /\ UNCHANGED <<options, others, authReturns, spawned, tempDir, child, signalled, processExited, socketFile,
                 deadlinePassed, uncaught, errText, removePending, closeStats>>

\* child.kill("SIGTERM") on a process that is not running: Deno throws a
\* TypeError, Node returns false.
KillThrows(rt, c) == rt = "deno" /\ c # "running"

\* try { child.kill("SIGTERM"); } catch { } in the Deno variant; the Node variant
\* calls child.kill bare.
KillCaught_no(rt) == FALSE

KillCaught(rt) == rt = "deno"

\* Deno.remove(...).catch(() => {}) / fs.rm(...).catch(() => {}): a rejection of
\* the removal is handled.
RemoveRejectionHandled_no == FALSE

RemoveRejectionHandled == TRUE

\* close(): closeFn of the backend; over SSH then child.kill("SIGTERM") and the
\* removal of the directory, started and not awaited. A throw of inner.close()
\* leaves close() before the kill.
Close ==
  /\ tpc = "ready"
  /\ closeStats.calls < MaxCloses
  /\ LET k == InnerKind(kind)
         clientThrows == ClientCloseThrows(runtime, k, httpClient)
         reachesKill == kind = "ssh" /\ ~clientThrows
         killEscapes == reachesKill /\ KillThrows(runtime, child) /\ ~KillCaught(runtime)
         teardown == reachesKill /\ ~killEscapes
         throws == clientThrows \/ killEscapes
         signal == reachesKill /\ KillDelivers(child)
     IN /\ httpClient' = IF ClosesClient(runtime, k) THEN "closed" ELSE httpClient
        /\ steps' = steps \o <<Step("innerClose", child)>>
                          \o (IF reachesKill THEN <<Step("kill", child)>> ELSE <<>>)
                          \o (IF teardown THEN <<Step("remove", child)>> ELSE <<>>)
                          \o <<Step(IF throws THEN "raise" ELSE "return", child)>>
        /\ signalled' = (signalled \/ signal)
        /\ removePending' = (removePending \/ teardown)
        /\ closeStats' = [calls |-> closeStats.calls + 1,
                          returned |-> closeStats.returned + (IF throws THEN 0 ELSE 1),
                          raised |-> closeStats.raised + (IF throws THEN 1 ELSE 0),
                          clientCloses |-> closeStats.clientCloses
                                             + (IF ClosesClient(runtime, k) THEN 1 ELSE 0),
                          signals |-> closeStats.signals + (IF signal THEN 1 ELSE 0),
                          removes |-> closeStats.removes + (IF teardown THEN 1 ELSE 0)]
  /\ UNCHANGED <<options, others, authHeader, authReturns, spawned, tpc, tempDir, child, processExited, socketFile,
                 deadlinePassed, uncaught, errText, error>>

\* ssh has set up the forward: the socket file appears.
SocketAppears ==
  /\ child = "running"
  /\ tempDir = "exists"
  /\ ~socketFile
  /\ socketFile' = TRUE
  /\ UNCHANGED <<options, others, steps, authHeader, authReturns, spawned, tpc, tempDir, child, signalled, processExited,
                 deadlinePassed, uncaught, errText, error, httpClient, removePending, closeStats>>

\* The ssh process exits, of its own or on a SIGTERM; the socket file it had
\* bound stays behind or is unlinked.
ChildExits ==
  /\ child = "running"
  /\ child' = "exited"
  /\ socketFile' \in {socketFile, FALSE}
  /\ UNCHANGED <<options, others, steps, authHeader, authReturns, spawned, tpc, tempDir, signalled, processExited,
                 deadlinePassed, uncaught, errText, error, httpClient, removePending, closeStats>>

\* child.status.then(...) / child.on("exit", ...): processExited = true
\* An exit observer that also starts the removal of the directory.
ExitObserved_cleansUp ==
  /\ child = "exited"
  /\ ~processExited
  /\ processExited' = TRUE
  /\ removePending' = (tempDir = "exists")
  /\ UNCHANGED <<options, others, steps, authHeader, authReturns, spawned, tpc, tempDir, child, signalled, socketFile,
                 deadlinePassed, uncaught, errText, error, httpClient, closeStats>>

\* child.status.then(() => { processExited = true; }) / child.on("exit", ...)
ExitObserved ==
  /\ child = "exited"
  /\ ~processExited
  /\ processExited' = TRUE
  /\ UNCHANGED <<options, others, steps, authHeader, authReturns, spawned, tpc, tempDir, child, signalled, socketFile,
                 deadlinePassed, uncaught, errText, error, httpClient, removePending, closeStats>>

\* Ten seconds have passed since the deadline was computed.
DeadlineExpires ==
  /\ tpc \in {"poll", "stat", "sleep"}
  /\ ~deadlinePassed
  /\ deadlinePassed' = TRUE
  /\ UNCHANGED <<options, others, steps, authHeader, authReturns, spawned, tpc, tempDir, child, signalled, processExited, socketFile,
                 uncaught, errText, error, httpClient, removePending, closeStats>>

\* The removal close() started finishes.
RemoveCompletes ==
  /\ removePending
  /\ removePending' = FALSE
  /\ tempDir' = "removed"
  /\ socketFile' = FALSE
  /\ UNCHANGED <<options, others, steps, authHeader, authReturns, spawned, tpc, child, signalled, processExited,
                 deadlinePassed, uncaught, errText, error, httpClient, closeStats>>

\* The removal close() started fails: the directory stays, the rejection goes
\* to the handler attached to it.
RemoveFails ==
  /\ removePending
  /\ removePending' = FALSE
  /\ uncaught' = (uncaught \/ ~RemoveRejectionHandled)
  /\ UNCHANGED <<options, others, steps, authHeader, authReturns, spawned, tpc, tempDir, child, signalled,
                 processExited, socketFile, deadlinePassed, errText, error, httpClient, closeStats>>

LifecycleNext ==
  \/ Create
  \/ MakeTempDir
  \/ SpawnOk
  \/ SpawnFails
  \/ PollCheck
  \/ Stat
  \/ Wake
  \/ KillOnFailure
  \/ Drain
  \/ AwaitExitAndReject
  \/ CreateInner
  \/ Close
  \/ SocketAppears
  \/ ChildExits
  \/ ExitObserved
  \/ DeadlineExpires
  \/ RemoveCompletes
  \/ RemoveFails

SpecLifecycle == LifecycleInit /\ [][LifecycleNext]_vars

\* The steps of the construction itself: the continuation of an await runs once
\* what it awaits has settled.
ProgramStep ==
  \/ Create
  \/ MakeTempDir
  \/ SpawnOk
  \/ SpawnFails
  \/ PollCheck
  \/ Stat
  \/ Wake
  \/ KillOnFailure
  \/ Drain
  \/ AwaitExitAndReject
  \/ CreateInner

\* The event loop runs every continuation that is ready, time passes, a process
\* that was sent SIGTERM terminates, and its exit is reported to the listeners.
\* Nothing makes the socket appear, ssh exit of its own, or the user call close().
SpecLifecycleFair ==
  /\ LifecycleInit
  /\ [][LifecycleNext]_vars
  /\ WF_vars(ProgramStep)
  /\ WF_vars(DeadlineExpires)
  /\ WF_vars(signalled /\ ChildExits)
  /\ WF_vars(ExitObserved)

\* ------------------------------------------------------------- properties
\* The whole text of a byte sequence, as one decoder run gives it.
WholeText(bytes) ==
  LET d == Utf8Decode(<<>>, bytes, <<>>) IN d.text \o Utf8Flush(d.pending)

\* The records parsedEvents yields when the stream arrives as one chunk.
UnsplitRecords(bytes) ==
  IF bytes = <<>> THEN FinalParse(<<>>, <<>>)
  ELSE LET d == Utf8Decode(<<>>, bytes, <<>>)
           t1 == LoopBody(<<>>, <<>>, d.text)
           t2 == IF d.pending = <<>> THEN t1
                 ELSE LoopBody(t1.buffer, t1.out, Utf8Flush(d.pending))
       IN FinalParse(t2.buffer, t2.out)

\* The text is one JSON document on one line ended by a newline.
IsSingleDocLine(text) ==
  /\ Len(text) >= 2
  /\ text[Len(text)] = NL
  /\ \A i \in 1..(Len(text) - 1) : text[i] # NL
  /\ JSONParse(SubSeq(text, 1, Len(text) - 1)).ok

\* C1: however the bytes of the stream were split into chunks, parsedEvents has
\* yielded, when it ends, the records it yields for the unsplit stream; a single
\* newline-terminated JSON document gives exactly one record, its value.
C1_ChunkingInvariant ==
  dpc = "done" =>
    /\ yielded = UnsplitRecords(wire)
    /\ IsSingleDocLine(WholeText(wire)) =>
         yielded = <<JSONParse(SubSeq(WholeText(wire), 1, Len(WholeText(wire)) - 1)).val>>

\* A document line of which a chunk ended inside the document, decoded to one
\* record.
C1_Witness ==
  /\ dpc = "done"
  /\ splitInLine
  /\ IsSingleDocLine(WholeText(wire))
  /\ Len(yielded) = 1

\* The lines of the stream's text.
LinesOf(bytes) == Split(WholeText(bytes), NL)

RECURSIVE ValuesOf(_, _)
\* The values of the lines that are valid JSON, in order: as they stand, or
\* (trimFirst) once trimmed.
ValuesOf(lines, trimFirst) ==
  IF lines = <<>> THEN <<>>
  ELSE LET text == IF trimFirst THEN Trim(Head(lines)) ELSE Head(lines)
           parsed == JSONParse(text)
       IN (IF parsed.ok THEN <<parsed.val>> ELSE <<>>) \o ValuesOf(Tail(lines), trimFirst)

\* C2 as stated: the records are exactly the values of the lines that are valid
\* JSON, in order, one each; every other line gives nothing.
C2_OnePerValidJsonLine ==
  dpc = "done" => yielded = ValuesOf(LinesOf(wire), FALSE)

\* C2 as amended: the records are exactly the values of the lines that are valid
\* JSON once trimmed (String.prototype.trim), in order, one each; every other
\* line gives nothing and does not end the sequence.
C2_OnePerTrimmedValidLine ==
  dpc = "done" => yielded = ValuesOf(LinesOf(wire), TRUE)

IsMalformedLine(line) == Trim(line) # <<>> /\ ~JSONParse(Trim(line)).ok

\* Two valid lines with different values and a malformed line between them.
C2_Witness ==
  /\ dpc = "done"
  /\ LET lines == LinesOf(wire)
     IN /\ Len(lines) = 3
        /\ JSONParse(lines[1]).ok /\ JSONParse(lines[3]).ok
        /\ IsMalformedLine(lines[2])
  /\ Len(yielded) = 2
  /\ yielded[1] # yielded[2]

\* The call was requestStream and its response had an error status.
StreamFailed ==
  /\ outcome.op = "requestStream"
  /\ res.status >= 400

\* C7: requestStream on a response with status >= 400 has read the body and
\* rejects with a PodmanError of that status and the call's method and path; it
\* never resolves with a stream.
C7_StreamErrorRejects ==
  StreamFailed =>
    /\ outcome.kind = "PodmanError"
    /\ outcome.bodyRead
    /\ outcome.status = res.status
    /\ outcome.method = call.method /\ outcome.path = call.path

\* A 400 response with a body, rejected.
C7_Witness ==
  /\ StreamFailed
  /\ res.status = 400 /\ res.body # <<>>
  /\ outcome.kind = "PodmanError"

\* C8 as stated: when the body of the error response parses as JSON, the message
\* is extractMessage of the parsed value, whatever that value is.
C8_MessageIsExtracted ==
  (StreamFailed /\ JSONParse(BodyText(res)).ok) =>
    outcome.message = ExtractMessage(JSONParse(BodyText(res)).val)

\* C9: when the body of the error response is not valid JSON the message is the
\* raw body text, and "Stream request failed" when the body is empty.
C9_RawTextOrFallback ==
  (StreamFailed /\ ~JSONParse(BodyText(res)).ok) =>
    outcome.message = (IF BodyText(res) = <<>> THEN <<"Stream request failed">>
                       ELSE BodyText(res))

\* A body that is text and not JSON, passed on as the message.
C9_Witness ==
  /\ StreamFailed
  /\ ~JSONParse(BodyText(res)).ok
  /\ Len(BodyText(res)) >= 2
  /\ outcome.message = res.body

\* C10: request on a response whose body is empty or only whitespace resolves
\* with {status, json: null}, for every status.
C10_BlankBodyIsNull ==
  (outcome.op = "request" /\ fetchFailure = "none" /\ \A i \in 1..Len(BodyText(res)) : BodyText(res)[i] \in TrimSpace) =>
    /\ outcome.kind = "resolved"
    /\ outcome.status = res.status
    /\ outcome.json = Null

\* An error response with a body of whitespace, resolved with null.
C10_Witness ==
  /\ outcome.op = "request"
  /\ fetchFailure = "none"
  /\ res.status = 500
  /\ res.body = <<SP, NBSP>>
  /\ outcome.kind = "resolved" /\ outcome.json = Null

\* C3 as stated: when createSshTransport has rejected, the ssh process has exited
\* or was never started and the temporary directory does not exist.
C3_RejectLeavesNothing ==
  (kind = "ssh" /\ tpc = "rejected") =>
    /\ child # "running"
    /\ tempDir # "exists"

\* C4 as stated: once a close() of a tunnel transport has returned, the process
\* has terminated and the temporary directory is removed.
C4_NothingOutlivesClose ==
  (kind = "ssh" /\ closeStats.returned >= 1) =>
    /\ child # "running"
    /\ tempDir = "removed"

\* C4 as amended: once a close() of a tunnel transport has returned, the process
\* has been sent SIGTERM unless it had exited, and the removal of the temporary
\* directory has been started or is done.
C4_CloseStartsTeardown ==
  (kind = "ssh" /\ closeStats.returned >= 1) =>
    /\ child = "exited" \/ signalled
    /\ closeStats.removes >= 1

\* close() has returned while the process still runs and the directory exists.
C4_Witness ==
  /\ kind = "ssh"
  /\ closeStats.returned = 1
  /\ child = "running" /\ signalled
  /\ tempDir = "exists" /\ removePending

\* C5 as stated: no close() call raises, on any kind of transport, however
\* often it is called.
C5_CloseNeverRaises == closeStats.raised = 0

\* C6 as stated: over all the close() calls of a transport each release action
\* (closing the pooled client, signalling the process, removing the directory)
\* is performed at most once.
C6_ReleasedOnce ==
  /\ closeStats.clientCloses <= 1
  /\ closeStats.signals <= 1
  /\ closeStats.removes <= 1


\* The first n characters of a text, all of it when it is shorter.
FirstChars(text, n) == [i \in 1..(IF Len(text) < n THEN Len(text) ELSE n) |-> text[i]]

\* The call was request and the body of its response has a character that is not
\* whitespace and is not valid JSON.
RequestOnInvalidJson ==
  /\ outcome.op = "request"
  /\ \E i \in 1..Len(BodyText(res)) : BodyText(res)[i] \notin TrimSpace
  /\ ~JSONParse(BodyText(res)).ok

\* C11: for every status, request on a response whose non-blank body is not valid
\* JSON rejects with a PodmanError of that status and the call's method and path,
\* whose message is "Invalid JSON response: " and the first 200 characters of the
\* body text.
C11_InvalidJsonRejects ==
  RequestOnInvalidJson =>
    /\ outcome.kind = "PodmanError"
    /\ outcome.status = res.status
    /\ outcome.method = call.method /\ outcome.path = call.path
    /\ outcome.message = <<"Invalid JSON response: ">> \o FirstChars(BodyText(res), 200)

\* A success status with a body of 201 characters, quoted up to the 200th.
C11_Witness ==
  /\ RequestOnInvalidJson
  /\ res.status = 200
  /\ Len(res.body) = 201
  /\ outcome.kind = "PodmanError"
  /\ Len(outcome.message) = 201

\* C12: for every status, 4xx and 5xx included, request on a response whose body
\* parses as JSON resolves with that status and the decoded value.
C12_ParsedWhateverStatus ==
  (outcome.op = "request" /\ JSONParse(BodyText(res)).ok) =>
    /\ outcome.kind = "resolved"
    /\ outcome.status = res.status
    /\ outcome.json = JSONParse(BodyText(res)).val

\* A 500 response with an error object as body, resolved with the object.
C12_Witness ==
  /\ outcome.op = "request"
  /\ res.status = 500
  /\ res.body = <<"{", "M", "}">>
  /\ outcome.kind = "resolved"
  /\ outcome.json = WithMember(EmptyObject, "M")


\* C13 as stated: when the consumer has stopped iterating before the stream ended,
\* the reader is released and the response body is cancelled.
C13_StopCancelsUpstream ==
  dpc = "stopped" =>
    /\ reader = "released"
    /\ upstream = "cancelled"


\* C14 as stated: the stat that makes createSshTransport ready finds the socket
\* while the deadline has not passed and the ssh process has not exited.
C14_FirstEventDecides ==
  [][(tpc = "stat" /\ tpc' = "createInner") => (child = "running" /\ ~deadlinePassed)]_vars

Settled == tpc \in {"ready", "rejected"}

\* C15 as stated: every createSshTransport call eventually resolves or rejects,
\* and a call that rejects after ssh exited and the directory was removed has a
\* message with "SSH tunnel" and the host.
C15_EventuallySettles ==
  /\ (kind = "ssh") => <>Settled
  /\ []((kind = "ssh" /\ tpc = "rejected" /\ child = "exited" /\ tempDir = "removed")
          => (error[1] = "SSH tunnel to " /\ error[2] = Host))

\* C16 as stated: when createSshTransport has rejected after ssh was started, the
\* message is "SSH tunnel to <host> failed: " and the trimmed captured stderr
\* text, or "socket not created within 10s" when that text is empty.
C16_FailureMessage ==
  (kind = "ssh" /\ tpc = "rejected" /\ child \in {"running", "exited"}) =>
    error = <<"SSH tunnel to ", Host, " failed: ">>
              \o (IF Trim(errText) = <<>> THEN <<"socket not created within 10s">>
                  ELSE Trim(errText))

\* C17 as stated: when ssh cannot be started, in either variant, the step that
\* fails to start it removes the temporary directory and rejects with the error
\* that names the host, the unavailable ssh command and the cause; no polling.
C17_SpawnFailureRejects ==
  [][(tpc = "spawn" /\ tpc' # "spawn" /\ child' # "running") =>
       (tpc' = "rejected" /\ tempDir' = "removed" /\ error' = UnavailableMessage)]_vars


\* C18: a call (request, requestRaw, requestStream) whose exchange failed before
\* a response was received has rejected with the error of the failure, not a
\* PodmanError; a PodmanError comes only with the status of a received response.
C18_TwoTiers ==
  /\ (outcome.kind # "none" /\ fetchFailure # "none") =>
        (outcome.kind = "Error" /\ outcome.message = <<fetchFailure>>)
  /\ outcome.kind = "PodmanError" =>
        (fetchFailure = "none" /\ res.status \in Statuses /\ outcome.status = res.status)

\* A request aborted by its deadline, rejected with the abort.
C18_Witness ==
  /\ outcome.op = "request"
  /\ fetchFailure = "timeout"
  /\ outcome.kind = "Error"
  /\ outcome.message = <<"timeout">>

\* C19: requestStream on a response with status below 400 rejects with a generic
\* error "No response body for <method> <path>" when the response has no body,
\* and resolves with the body stream when it has one.
C19_NoBodyOrStream ==
  (outcome.op = "requestStream" /\ fetchFailure = "none" /\ res.status < 400) =>
    IF res.hasBody
    THEN outcome.kind = "stream"
    ELSE /\ outcome.kind = "Error"
         /\ outcome.message = <<"No response body for ", call.method, " ", call.path>>

\* A 200 response without a body, rejected with the generic error.
C19_Witness ==
  /\ outcome.op = "requestStream"
  /\ fetchFailure = "none"
  /\ res.status = 200 /\ ~res.hasBody
  /\ outcome.kind = "Error"
  /\ outcome.message = <<"No response body for ", "GET", " ", "/events">>


\* The message the classifier is to give for a value.
MessageOrCause(json) ==
  IF json.t = "obj" /\ json.message.k = "str" THEN json.message.v
  ELSE IF json.t = "obj" /\ json.cause.k = "str" THEN json.cause.v
  ELSE <<"Unknown error">>

\* C20: extractMessage gives the message field when it is a string, else the
\* cause field when it is a string, else "Unknown error"; null, undefined,
\* primitives and arrays give "Unknown error".
C20_MessageThenCause ==
  outcome.op = "createPodmanError" => outcome.message = MessageOrCause(outcome.json)

\* An object with a string message and another string as cause: the message wins.
C20_Witness ==
  /\ outcome.op = "createPodmanError"
  /\ outcome.json.t = "obj"
  /\ outcome.json.message = StrField(<<"boom">>)
  /\ outcome.json.cause = StrField(<<"why">>)
  /\ outcome.message = <<"boom">>


\* C21: the step that ends the sequence (the stream has ended) yields the retained
\* fragment, trimmed and parsed, when it is not empty after trimming and parses,
\* and nothing otherwise; after it nothing more is yielded.
C21_FinalParse ==
  [][/\ (dpc = "reading" /\ dpc' = "done") =>
          yielded' = (IF Trim(buffer) # <<>> /\ JSONParse(Trim(buffer)).ok
                      THEN Append(yielded, JSONParse(Trim(buffer)).val)
                      ELSE yielded)
     /\ dpc = "done" => (yielded' = yielded /\ dpc' = "done")]_vars

\* A stream that ended without a newline after its last document, which was
\* yielded as the last record.
C21_Witness ==
  /\ dpc = "done"
  /\ wire # <<>> /\ wire[Len(wire)] # NL
  /\ buffer # <<>> /\ JSONParse(Trim(buffer)).ok
  /\ yielded # <<>>
  /\ yielded[Len(yielded)] = JSONParse(Trim(buffer)).val


\* ------------------------------------------------------- what a call sends
ShortTimeout == 5000
TimeoutOptions == {<<>>, <<ShortTimeout>>}
DirectKinds == {"unix", "tcp", "tls"}

\* Body arguments of request.
JsonArgs ==
  {Undefined, Null, [t |-> "num", digits |-> <<"0">>], [t |-> "num", digits |-> <<"1", "0">>],
   Str(<<>>), Str(<<"a", QUOTE, BACKSLASH>>)}
    \cup {[t |-> "obj", message |-> m, cause |-> c] :
            m \in {AbsentField, StrField(<<"boom">>), NumField},
            c \in {AbsentField, StrField(<<"why">>)}}

\* Body arguments of requestRaw.
RawBodies ==
  {Undefined, Str(<<"t", "a", "r">>), Bytes(<<"t", "a", "r">>),
   StreamBody(<<"t", "a", "r">>), Blob(<<"t", "a", "r">>)}

\* Headers a caller of requestRaw passes.
CallerHeaders ==
  {[name |-> "Content-Type", value |-> "application/x-tar"],
   [name |-> "X-Registry-Auth", value |-> "e30="]}

\* A transport built without a credential and not over SSH, not yet closed.
ReadyTransport ==
  /\ auth = "none"
  /\ apiVersion = <<>>
  /\ stderrOut = <<>>
  /\ credential = <<>>
  /\ authHeader = <<>>
  /\ authReturns = <<>>
  /\ sshOpts = NoSshOpts
  /\ spawned = <<>>
  /\ tpc = "ready"
  /\ tempDir = "none"
  /\ child = "none"
  /\ signalled = FALSE
  /\ processExited = FALSE
  /\ socketFile = FALSE
  /\ deadlinePassed = FALSE
  /\ uncaught = FALSE
  /\ errText = <<>>
  /\ error = <<>>
  /\ httpClient = CreatedClient(runtime, kind, auth)
  /\ removePending = FALSE
  /\ closeStats = NoCloses
  /\ steps = <<>>

\* A call with its arguments is about to be made on a transport of one of the
\* backends; the server answers, or no response arrives.
OutboundInit ==
  /\ StreamIdle
  /\ PeerIdle
  /\ DecoderIdle
  /\ runtime \in Runtimes
  /\ kind \in DirectKinds
  /\ timeoutOpt \in TimeoutOptions
  /\ ReadyTransport
  /\ call \in Calls
  /\ \/ /\ fetchFailure = "none"
        /\ res \in [status : Statuses, hasBody : {TRUE}, body : {<<>>, <<"{", "M", "}">>}]
     \/ /\ fetchFailure \in FetchFailures
        /\ res = NoResponse
  /\ args \in [body : JsonArgs, rawBody : RawBodies, headers : SUBSET CallerHeaders]
  /\ outcome = Pending
  /\ sent = <<>>

SpecOutbound == OutboundInit /\ [][ExchangeNext]_vars

\* C22: on the Unix-socket and the TCP/TLS backend of both runtimes, every
\* exchange made by request and by requestRaw carries a deadline equal to the
\* configured timeout, 30 seconds when none is configured, and every exchange
\* made by requestStream carries none.
C22_Deadlines ==
  \A i \in 1..Len(sent) :
    /\ outcome.op \in {"request", "requestRaw"} =>
          sent[i].deadline = <<IF timeoutOpt = <<>> THEN 30000 ELSE timeoutOpt[1]>>
    /\ outcome.op = "requestStream" => sent[i].deadline = <<>>

\* A requestRaw on the Node TLS backend under a configured timeout of 5 s.
C22_Witness ==
  /\ runtime = "node" /\ kind = "tls"
  /\ timeoutOpt = <<ShortTimeout>>
  /\ outcome.op = "requestRaw"
  /\ Len(sent) = 1
  /\ sent[1].deadline = <<ShortTimeout>>

\* C23: requestRaw hands the caller's body and headers to the exchange
\* unchanged, with no header added, and for every status resolves with the
\* response, its body unread, raising no PodmanError.
C23_RawPassThrough ==
  outcome.op = "requestRaw" =>
    /\ Len(sent) = 1
    /\ sent[1].headers = args.headers
    /\ sent[1].wireBody = args.rawBody
    /\ fetchFailure = "none" =>
          (outcome.kind = "response" /\ outcome.status = res.status /\ ~outcome.bodyRead)

\* C26: request always sends Accept: application/json; it sends Content-Type:
\* application/json exactly when a body argument is given, and then the body
\* sent is a JSON text that parses back to the argument; with no body argument
\* it sends no body and no Content-Type.
C26_RequestHeaders ==
  outcome.op = "request" =>
    /\ Len(sent) = 1
    /\ Accept \in sent[1].headers
    /\ \A h \in sent[1].headers : h.name \in {"Accept", "Content-Type"}
    /\ IF args.body # Undefined
       THEN /\ sent[1].headers = {Accept, ContentTypeJson}
            /\ sent[1].wireBody.t = "str"
            /\ JSONParse(sent[1].wireBody.text) = Ok(args.body)
       ELSE /\ sent[1].headers = {Accept}
            /\ sent[1].wireBody = Undefined

\* A request with the argument null: the body null goes out as JSON.
C26_Witness ==
  /\ outcome.op = "request"
  /\ args.body = Null
  /\ Len(sent) = 1
  /\ sent[1].wireBody = Str(NullText)
  /\ ContentTypeJson \in sent[1].headers


\* C30: for one error status and one response body, the PodmanError of
\* throwRawError (after requestRaw) carries the message that the PodmanError of
\* requestStream carries for that response.
C30_SameMessage ==
  (outcome.op = "throwRawError" /\ res.status >= 400) =>
    /\ RequestStreamResult(call, res).kind = "PodmanError"
    /\ outcome.message = RequestStreamResult(call, res).message


\* ----------------------------------------------------- the ssh command line
OtherPort == 2222
\* Extra options a caller passes: none, host-key checking in the spelling of
\* ssh_config(5), in one argument, in lower case, and unrelated options.
SshOptionLists ==
  {<<>>,
   << <<"-o">>, <<"StrictHostKeyChecking", "=", "no">> >>,
   << <<"-o", "StrictHostKeyChecking", "=", "yes">> >>,
   << <<"-o">>, <<"stricthostkeychecking", "=", "yes">> >>,
   << <<"-v">> >>,
   << <<"-o">>, <<"ConnectTimeout", "=", "5">>, <<"-v">> >>}

SshOptionSets ==
  [remoteSocketPath : {<<>>, <<"/tmp/p.sock">>},
   port : {<<>>, <<OtherPort>>},
   identityFile : {<<>>, <<"/home/u/.ssh/id">>},
   sshOptions : SshOptionLists]

\* A construction with ssh options given is about to start.
SshInit ==
  /\ StreamIdle
  /\ PeerIdle
  /\ DecoderIdle
  /\ ExchangeIdle
  /\ sshOpts \in SshOptionSets
  /\ ConstructionStart
  /\ credential = DefaultCredential(auth)

SpecSsh == SshInit /\ [][LifecycleNext]_vars

\* ssh reads option keywords without regard to case.
SshKeyword(fragment) ==
  IF fragment \in {"StrictHostKeyChecking", "stricthostkeychecking"}
  THEN "stricthostkeychecking" ELSE fragment

\* The caller's extra options configure host-key checking.
CallerSetsHostKeyChecking(list) ==
  \E i \in 1..Len(list) : \E j \in 1..Len(list[i]) :
     SshKeyword(list[i][j]) = "stricthostkeychecking"

\* The flag at position i, followed by the value.
HasPair(a, flag, value) ==
  \E i \in 1..(Len(a) - 1) : a[i] = <<flag>> /\ a[i + 1] = value

\* C28: the ssh argument list starts with -N, -L <localSocket>:<remoteSocketPath>
\* and -p <port>, with the path /run/podman/podman.sock and the port 22 when they
\* are not given; it contains -o ExitOnForwardFailure=yes; it contains
\* -o StrictHostKeyChecking=accept-new exactly when the caller's options do not
\* configure host-key checking; it contains -i <identityFile> exactly when an
\* identity file was given; the caller's options come after all of these and the
\* host is the last argument.
C28_SshArguments ==
  \A n \in 1..Len(spawned) :
    LET a == spawned[n]
        extra == sshOpts.sshOptions
        fixed == SubSeq(a, 1, Len(a) - Len(extra) - 1)
        remote == IF sshOpts.remoteSocketPath = <<>> THEN "/run/podman/podman.sock"
                  ELSE sshOpts.remoteSocketPath[1]
        port == IF sshOpts.port = <<>> THEN "22" ELSE ToString(sshOpts.port[1])
    IN /\ Len(a) >= Len(extra) + 8
       /\ SubSeq(a, 1, 5) = << <<"-N">>, <<"-L">>, <<LocalSocket, ":", remote>>,
                               <<"-p">>, <<port>> >>
       /\ HasPair(fixed, "-o", <<"ExitOnForwardFailure", "=", "yes">>)
       /\ HasPair(a, "-o", <<"StrictHostKeyChecking", "=", "accept-new">>)
             <=> ~CallerSetsHostKeyChecking(extra)
       /\ IF sshOpts.identityFile = <<>>
          THEN \A i \in 1..Len(a) : a[i] # <<"-i">>
          ELSE HasPair(fixed, "-i", sshOpts.identityFile)
       /\ SubSeq(a, Len(a) - Len(extra), Len(a) - 1) = extra
       /\ a[Len(a)] = <<Host>>


\* ------------------------------------------- a transport and a call on it
\* A construction is about to start and one call waits for the transport.
TransportInit ==
  /\ StreamIdle
  /\ PeerIdle
  /\ DecoderIdle
  /\ sshOpts = NoSshOpts
  /\ ConstructionStart
  /\ credential = DefaultCredential(auth)
  /\ call \in Calls
  /\ \/ /\ fetchFailure = "none"
        /\ res \in [status : {200, 500}, hasBody : {TRUE}, body : {<<>>, <<"{", "M", "}">>}]
     \/ /\ fetchFailure \in FetchFailures
        /\ res = NoResponse
  /\ args = NoArgs
  /\ outcome = Pending
  /\ sent = <<>>

\* The call is made once the transport is there and before it is closed.
CallOnTransport ==
  /\ tpc = "ready"
  /\ closeStats.calls = 0
  /\ ExchangeNext

TransportNext ==
  \/ LifecycleNext
  \/ CallOnTransport

SpecTransport == TransportInit /\ [][TransportNext]_vars

\* C24: nothing is retried. A call of request, requestRaw or requestStream has
\* performed exactly one exchange when it settles, with a response or with a
\* failure, and a failed exchange is reported as that one failure; a
\* createSshTransport call starts ssh at most once, also when it fails.
C24_NoRetries ==
  /\ Len(spawned) <= 1
  /\ kind # "ssh" => spawned = <<>>
  /\ outcome.kind = "none" => sent = <<>>
  /\ outcome.kind # "none" => Len(sent) = 1
  /\ (outcome.kind # "none" /\ fetchFailure # "none") =>
        (outcome.kind = "Error" /\ outcome.message = <<fetchFailure>>)

\* Over a tunnel that came up, a request whose connection failed: one start
\* of ssh, one exchange, one error.
C24_Witness ==
  /\ kind = "ssh" /\ tpc = "ready"
  /\ Len(spawned) = 1
  /\ outcome.op = "request"
  /\ fetchFailure = "connect"
  /\ Len(sent) = 1
  /\ outcome.kind = "Error"


\* ------------------------------------------------------------ getAuthHeader
MaxGets == 2

\* getAuthHeader(): return authHeader. It can be called on a closed transport.
GetAuthHeader ==
  /\ tpc = "ready"
  /\ Len(authReturns) < MaxGets
  /\ authReturns' = Append(authReturns, authHeader)
  /\ UNCHANGED <<options, others, steps, authHeader, spawned, tpc, tempDir, child, signalled,
                 processExited, socketFile, deadlinePassed, uncaught, errText, error,
                 httpClient, removePending, closeStats>>

\* A construction with a credential is about to start; one call waits for the
\* transport, a requestRaw of it with or without a credential header of the
\* caller's.
AuthInit ==
  /\ StreamIdle
  /\ PeerIdle
  /\ DecoderIdle
  /\ sshOpts = NoSshOpts
  /\ ConstructionStart
  /\ stderrOut = <<>>
  /\ credential \in CredentialsOf(auth)
  /\ call = [method |-> "POST", path |-> "/fail"]
  /\ \/ /\ fetchFailure = "none"
        /\ res \in [status : {200, 500}, hasBody : {TRUE}, body : {<<"{", "M", "}">>}]
     \/ /\ fetchFailure = "connect"
        /\ res = NoResponse
  /\ args \in [body : {Undefined, Null}, rawBody : {Undefined},
                headers : {{}, {[name |-> "X-Registry-Auth", value |-> "e30="]}}]
  /\ outcome = Pending
  /\ sent = <<>>

AuthNext ==
  \/ TransportNext
  \/ GetAuthHeader

SpecAuth == AuthInit /\ [][AuthNext]_vars

\* The characters a credential is written with.
CodedChars ==
  {"{", "}", ":", ",", QUOTE, BACKSLASH, "é", "€",
   "u", "s", "e", "r", "n", "a", "m", "p", "w", "o", "d", "i", "t", "y", "k", "T"}

\* The value of a base64 character, 64 for one outside the alphabet.
B64Index == [c \in {B64[i] : i \in 1..64} |-> (CHOOSE i \in 1..64 : B64[i] = c) - 1]
B64Value(c) == IF c \in DOMAIN B64Index THEN B64Index[c] ELSE 64

\* The character of a code unit.
CharOfCode ==
  [b \in {CharCode(c) : c \in CodedChars} |-> CHOOSE c \in CodedChars : CharCode(c) = b]

RECURSIVE DecodeBytes(_)
\* The bytes of a padded base64 text whose length is a multiple of four.
DecodeBytes(h) ==
  IF h = <<>> THEN <<>>
  ELSE LET v1 == B64Value(h[1])
           v2 == B64Value(h[2])
           v3 == B64Value(h[3])
           v4 == B64Value(h[4])
           b1 == v1 * 4 + (v2 \div 16)
           b2 == (v2 % 16) * 16 + (v3 \div 4)
           b3 == (v3 % 4) * 64 + v4
       IN IF h[3] = "=" THEN <<b1>>
          ELSE IF h[4] = "=" THEN <<b1, b2>>
          ELSE <<b1, b2, b3>> \o DecodeBytes(SubSeq(h, 5, Len(h)))

\* atob(h): Fail for a text that is not padded base64.
Atob(h) ==
  IF \/ Len(h) % 4 # 0
     \/ \E i \in 1..Len(h) : B64Value(h[i]) = 64 /\ ~(h[i] = "=" /\ i >= Len(h) - 1)
     \/ (Len(h) > 0 /\ h[Len(h) - 1] = "=" /\ h[Len(h)] # "=")
  THEN Fail
  ELSE LET bytes == DecodeBytes(h)
       IN IF \A i \in 1..Len(bytes) : bytes[i] \in DOMAIN CharOfCode
          THEN Ok([i \in 1..Len(bytes) |-> CharOfCode[bytes[i]]])
          ELSE Fail

\* C27: every getAuthHeader() call returns undefined when no credential was
\* given and otherwise a base64 text that decodes to the JSON serialization of
\* the credential; all calls return the same value, before and after other
\* operations and close(); and an exchange carries no header besides those of
\* request and requestStream and those the caller passed to requestRaw.
C27_AuthHeader ==
  /\ \A i \in 1..Len(authReturns) : authReturns[i] = authReturns[1]
  /\ authReturns # <<>> =>
        IF credential = <<>> THEN authReturns[1] = <<>>
        ELSE /\ Len(authReturns[1]) = 1
             /\ Atob(authReturns[1][1]) = Ok(CredentialJson(credential))
  /\ \A n \in 1..Len(sent) : \A h \in sent[n].headers :
        h.name = "X-Registry-Auth" => (outcome.op \in {"requestRaw", "throwRawError"} /\ h \in args.headers)

\* Two getAuthHeader() calls on a transport with an identity token, around a
\* request and a close(): both return the encoded credential, and the request
\* went out without it.
C27_Witness ==
  /\ credential = <<Member(IdentityToken, <<"t">>)>>
  /\ Len(authReturns) = 2
  /\ authReturns[2] = << <<"e", "y", "J", "p", "Z", "G", "V", "u", "d", "G", "l", "0", "e", "V",
                          "R", "v", "a", "2", "V", "u", "I", "j", "o", "i", "d", "C", "J", "9">> >>
  /\ closeStats.calls >= 1
  /\ outcome.op = "request"
  /\ Len(sent) = 1
  /\ sent[1].headers = {Accept}


\* ------------------------------------------------- the body of a stream
MaxChunks == 3
\* The queue of a ReadableStream made without a strategy asks its source for
\* more while it holds fewer chunks than this.
HighWaterMark == 1

\* Whether a chunk the server sent goes into the queue of the stream now.
\* nodeRequest enqueues on every "data" event of the response, whatever the
\* queue holds; the body of a fetch response takes a chunk from the connection
\* only when the stream asks for one.
MayDeliver(via, q) == via = "nodeRequest" \/ Len(q) < HighWaterMark

\* A requestStream is about to be made; the server will answer 200 and send
\* some chunks.
StreamedInit ==
  /\ DecoderIdle
  /\ PeerIdle
  /\ runtime \in Runtimes
  /\ kind \in DirectKinds
  /\ timeoutOpt = <<>>
  /\ ReadyTransport
  /\ call \in Calls
  /\ fetchFailure = "none"
  /\ res = [status |-> 200, hasBody |-> TRUE, body |-> <<>>]
  /\ args = NoArgs
  /\ outcome = Pending
  /\ sent = <<>>
  /\ source \in {[i \in 1..n |-> i] : n \in 0..MaxChunks}
  /\ queue = <<>>
  /\ consumed = <<>>

\* A chunk arrives from the server and is enqueued.
Deliver ==
  /\ outcome.kind = "stream"
  /\ source # <<>>
  /\ MayDeliver(Via(runtime, InnerKind(kind)), queue)
  /\ queue' = Append(queue, Head(source))
  /\ source' = Tail(source)
  /\ UNCHANGED <<consumed, decoderVars, exchangeVars, lifecycleVars, peerVars>>

\* The consumer reads a chunk: reader.read().
ReadBody ==
  /\ outcome.kind = "stream"
  /\ queue # <<>>
  /\ consumed' = Append(consumed, Head(queue))
  /\ queue' = Tail(queue)
  /\ UNCHANGED <<source, decoderVars, exchangeVars, lifecycleVars, peerVars>>

StreamedNext ==
  \/ RequestStream
  \/ Deliver
  \/ ReadBody

SpecStreamed == StreamedInit /\ [][StreamedNext]_vars

\* C29: on every backend the stream holds at most one chunk that was delivered
\* and not yet read: a further chunk is delivered only after the consumer read.
C29_PullBased ==
  /\ Len(queue) <= 1
  /\ consumed \o queue \o source = [i \in 1..(Len(consumed) + Len(queue) + Len(source)) |-> i]


\* ------------------------------------------- calls running side by side
MaxShare == 2
ShareBytes == {NL, "0", "1"}

\* A second call that continues with the text another call has carried over.
CarryOver_shared(own, other) == other

\* let buffer = "": the carry-over of a call is a local of that call.
CarryOver(own, other) == own

\* Two parsedEvents calls read their streams and one call waits for its
\* response, all on one transport.
ConcurrentInit ==
  /\ StreamIdle
  /\ LifecycleIdle
  /\ wire \in SeqsUpTo(ShareBytes, MaxShare)
  /\ pos = 0
  /\ utf8Pending = <<>>
  /\ buffer = <<>>
  /\ yielded = <<>>
  /\ dpc = "reading"
  /\ splitInLine = FALSE
  /\ turnYield = 0
  /\ reader = "locked"
  /\ upstream = "open"
  /\ peer \in [wire : SeqsUpTo(ShareBytes, MaxShare), pos : {0}, utf8Pending : {<<>>},
                buffer : {<<>>}, yielded : {<<>>}, dpc : {"reading"}]
  /\ call = [method |-> "POST", path |-> "/fail"]
  /\ fetchFailure = "none"
  /\ res \in [status : {200, 500}, hasBody : {TRUE}, body : {<<"1">>, <<"{", "M", "}">>}]
  /\ args = NoArgs
  /\ outcome = Pending
  /\ sent = <<>>

\* One turn of the second call's loop on the next k bytes of its stream.
PeerReadChunk(k) ==
  /\ peer.dpc = "reading"
  /\ peer.pos + k <= Len(peer.wire)
  /\ LET d == Utf8Decode(peer.utf8Pending, SubSeq(peer.wire, peer.pos + 1, peer.pos + k), <<>>)
         own == CarryOver(peer.buffer, buffer)
         turn == IF d.text = <<>> THEN [buffer |-> own, out |-> peer.yielded]
                 ELSE LoopBody(own, peer.yielded, d.text)
     IN peer' = [peer EXCEPT !.pos = peer.pos + k, !.utf8Pending = d.pending,
                             !.buffer = turn.buffer, !.yielded = turn.out]
  /\ UNCHANGED <<decoderVars, exchangeVars, lifecycleVars, streamVars>>

\* The second call's stream has ended.
PeerReadDone ==
  /\ peer.dpc = "reading"
  /\ peer.pos = Len(peer.wire)
  /\ peer.utf8Pending = <<>>
  /\ peer' = [peer EXCEPT !.yielded = FinalParse(CarryOver(peer.buffer, buffer), peer.yielded),
                          !.dpc = "done"]
  /\ UNCHANGED <<decoderVars, exchangeVars, lifecycleVars, streamVars>>

ConcurrentNext ==
  \/ \E k \in 1..MaxShare : ReadChunk(k)
  \/ ReadDone
  \/ \E k \in 1..MaxShare : PeerReadChunk(k)
  \/ PeerReadDone
  \/ Request
  \/ RequestRaw
  \/ RequestStream

SpecConcurrent == ConcurrentInit /\ [][ConcurrentNext]_vars

StepNames == [i \in 1..Len(steps) |-> steps[i].step]

\* if (!ready) { kill; race(drain, 5 s); await exit; await remove; throw }
FailureOrder == <<"kill", "drain", "exit", "remove", "raise">>

\* The construction is on, or has left through, the branch taken when the socket
\* did not appear before the deadline or the exit of ssh.
OnFailurePath ==
  /\ kind = "ssh"
  /\ \/ tpc \in {"drain", "awaitExit"}
     \/ tpc = "rejected" /\ error = TunnelFailedMessage(errText)

CloseOrder == <<"innerClose", "kill", "remove", "return">>

\* A tunnel transport that was handed out: its log holds close() calls only.
ReadyTunnel == kind = "ssh" /\ tpc = "ready"

\* C32: close() of a tunnel transport closes the inner transport, then signals
\* the process, then starts the removal of the directory, in this order; a
\* signal to a dead process and a failed removal never leave close(), neither
\* as an exception (a close() raises only out of inner.close(), before the
\* signal) nor as an unhandled rejection.
C32_CloseOrder ==
  ReadyTunnel =>
    /\ closeStats.calls >= 1 => (Len(steps) >= 4 /\ SubSeq(StepNames, 1, 4) = CloseOrder)
    /\ \A i \in 1..Len(steps) :
         /\ StepNames[i] = "innerClose" => (i = 1 \/ StepNames[i - 1] \in {"return", "raise"})
         /\ StepNames[i] = "kill" => (i > 1 /\ StepNames[i - 1] = "innerClose")
         /\ StepNames[i] = "remove" => (i > 1 /\ StepNames[i - 1] = "kill")
         /\ StepNames[i] = "return" => (i > 1 /\ StepNames[i - 1] = "remove")
         /\ StepNames[i] = "raise" => (i > 1 /\ StepNames[i - 1] = "innerClose")
    /\ ~uncaught

\* close() of a tunnel whose process had exited, and the removal it started
\* failed: it returned, and nothing was left unhandled.
C32_Witness ==
  /\ ReadyTunnel
  /\ runtime = "deno"
  /\ closeStats.calls = 1 /\ closeStats.returned = 1
  /\ steps[2] = Step("kill", "exited")
  /\ ~removePending /\ tempDir = "exists"

\* C37: when ssh has exited by itself after the transport was handed out, the
\* first close() still returns without raising, has closed the inner transport
\* and has started the removal of the directory, with Deno and with Node; no
\* signal is delivered.
C37_CloseAfterExit ==
  (ReadyTunnel /\ closeStats.calls >= 1 /\ steps[1].child = "exited") =>
    /\ Len(steps) >= 4 /\ SubSeq(StepNames, 1, 4) = CloseOrder
    /\ closeStats.returned >= 1
    /\ closeStats.removes >= 1
    /\ ClosesClient(runtime, InnerKind(kind)) => httpClient = "closed"
    /\ closeStats.calls = 1 =>
         /\ closeStats.raised = 0
         /\ ~signalled

\* With Deno, ssh exited, then close() was called once and its removal is done.
C37_Witness ==
  /\ ReadyTunnel
  /\ runtime = "deno"
  /\ closeStats.calls = 1
  /\ steps[1].child = "exited"
  /\ closeStats.returned = 1
  /\ tempDir = "removed"


\* ------------------------------------------------ a tunnel that became ready
\* A version a caller passes in place of the default.
OtherApiVersion == "5.0.0"
ApiVersionOptions == {<<>>, <<OtherApiVersion>>}

\* createSshTransport has found the socket and is about to create the inner
\* transport; one call of the transport waits for it.
TunnelInit ==
  /\ StreamIdle
  /\ PeerIdle
  /\ DecoderIdle
  /\ runtime \in Runtimes
  /\ kind = "ssh"
  /\ timeoutOpt \in TimeoutOptions
  /\ apiVersion \in ApiVersionOptions
  /\ auth \in {"none", "latin1"}
  /\ credential \in CredentialsOf(auth)
  /\ stderrOut = <<>>
  /\ sshOpts = NoSshOpts
  /\ authHeader = <<>>
  /\ authReturns = <<>>
  /\ spawned = <<SshArgs(sshOpts)>>
  /\ tpc = "createInner"
  /\ tempDir = "exists"
  /\ child = "running"
  /\ signalled = FALSE
  /\ processExited = FALSE
  /\ socketFile = TRUE
  /\ deadlinePassed = FALSE
  /\ uncaught = FALSE
  /\ errText = <<>>
  /\ error = <<>>
  /\ httpClient = "none"
  /\ removePending = FALSE
  /\ closeStats = NoCloses
  /\ steps = <<>>
  /\ call = [method |-> "POST", path |-> "/fail"]
  /\ \/ /\ fetchFailure = "none"
        /\ res \in [status : {200, 500}, hasBody : {TRUE}, body : {<<"{", "M", "}">>}]
     \/ /\ fetchFailure = "connect"
        /\ res = NoResponse
  /\ args \in [body : {Undefined, Null}, rawBody : {Undefined}, headers : {{}}]
  /\ outcome = Pending
  /\ sent = <<>>

TunnelNext ==
  \/ CreateInner
  \/ CallOnTransport
  \/ GetAuthHeader
  \/ ChildExits
  \/ ExitObserved
  \/ Close
  \/ RemoveCompletes
  \/ RemoveFails

SpecTunnel == TunnelInit /\ [][TunnelNext]_vars

\* The options of a Unix-socket transport on the tunnel's local socket with the
\* caller's apiVersion, timeout and auth.
UnixOptions ==
  [kind |-> "unix", target |-> LocalSocket, apiVersion |-> apiVersion,
   timeout |-> timeoutOpt, auth |-> credential]

\* What the call made does on a Unix-socket transport with options o: the
\* exchange it performs and how it settles.
UnixCall(op, o) ==
  LET init == CASE op = "request" -> RequestInit(args.body)
                [] op = "requestRaw" -> RequestRawInit(args.rawBody, args.headers)
                [] OTHER -> RequestStreamInit
      req == DoFetch(runtime, o, call, init)
  IN [sent |-> <<req>>,
      outcome |-> IF DoFetchRejects(fetchFailure, req.deadline # <<>>)
                  THEN FetchFailed(op, fetchFailure, call)
                  ELSE CASE op = "request" -> RequestResult(call, res)
                         [] op = "requestRaw" -> RequestRawResult(call, res)
                         [] OTHER -> RequestStreamResult(call, res)]

\* C33: on a ready tunnel, request, requestRaw, requestStream and getAuthHeader
\* do what they do on a Unix-socket transport created with the tunnel's local
\* socket path and the caller's apiVersion, timeout and auth: the same exchange
\* (URL, socket, method, headers, body, deadline) and the same result.
C33_SameAsUnixTransport ==
  ReadyTunnel =>
    /\ authHeader = AuthHeader(UnixOptions.auth)
    /\ \A i \in 1..Len(authReturns) : authReturns[i] = AuthHeader(UnixOptions.auth)
    /\ outcome.op \in {"request", "requestRaw", "requestStream"} =>
         /\ sent = UnixCall(outcome.op, UnixOptions).sent
         /\ outcome = UnixCall(outcome.op, UnixOptions).outcome
    /\ outcome.op = "none" => sent = <<>>

\* A tunnel made with a timeout, an apiVersion and a credential has performed a
\* request and has returned its auth header.
C33_Witness ==
  /\ ReadyTunnel
  /\ timeoutOpt # <<>> /\ apiVersion # <<>> /\ credential # <<>>
  /\ outcome.op = "request"
  /\ Len(sent) = 1
  /\ sent[1].socketPath = <<LocalSocket>>
  /\ Len(authReturns) = 1

\* C34: after the transport was handed out and before close(), the process has
\* not been signalled and the directory exists with no removal started; request,
\* requestRaw, requestStream and getAuthHeader leave the process, the exit flag
\* and the directory as they are, and the exit observer sets the flag and
\* nothing else of them.
C34_OnlyObserverAndClose ==
  /\ [][(tpc = "ready" /\ (CallOnTransport \/ GetAuthHeader)) =>
          UNCHANGED <<child, signalled, processExited, tempDir, socketFile, removePending,
                      spawned, closeStats>>]_vars
  /\ [][(tpc = "ready" /\ ExitObserved) =>
          (processExited' /\ UNCHANGED <<child, signalled, tempDir, socketFile, removePending,
                                         spawned, closeStats>>)]_vars
  /\ []((ReadyTunnel /\ closeStats.calls = 0) =>
          (~signalled /\ tempDir = "exists" /\ ~removePending /\ child \in {"running", "exited"}))

\* Calls were made and the exit of ssh was observed; nothing is torn down.
C34_Witness ==
  /\ ReadyTunnel
  /\ closeStats.calls = 0
  /\ outcome.op = "requestStream"
  /\ Len(authReturns) = MaxGets
  /\ processExited
  /\ tempDir = "exists" /\ ~signalled


\* --------------------------------------------- status before body in requestStream
\* C35: requestStream looks at the status before it looks for a body: a response
\* with a status of 400 or more and no body rejects with a PodmanError that
\* carries this status, the method and the path and the message "Stream request
\* failed", never with the plain error "No response body ...".
C35_StatusBeforeBody ==
  (outcome.op = "requestStream" /\ fetchFailure = "none" /\ res.status >= 400 /\ ~res.hasBody) =>
    /\ outcome.kind = "PodmanError"
    /\ outcome.status = res.status
    /\ outcome.message = <<"Stream request failed">>
    /\ outcome.message # NoBodyMessage(call)
    /\ outcome.method = call.method /\ outcome.path = call.path

\* requestStream has settled on a response with status 500 and no body.
C35_Witness ==
  /\ outcome.op = "requestStream"
  /\ fetchFailure = "none"
  /\ res.status = 500
  /\ ~res.hasBody
  /\ outcome.kind = "PodmanError"


\* ------------------------------------------------ parsedEvents and its failures
\* parsedEvents() has been called and nothing of it has run; the response to
\* GET /events and the bytes of its body are the environment's.
EventsInit ==
  /\ StreamIdle
  /\ PeerIdle
  /\ LifecycleIdle
  /\ wire \in SeqsUpTo(WireBytes, MaxWire)
  /\ pos = 0
  /\ utf8Pending = <<>>
  /\ buffer = <<>>
  /\ yielded = <<>>
  /\ dpc = "start"
  /\ splitInLine = FALSE
  /\ turnYield = 0
  /\ reader = "none"
  /\ upstream = "none"
  /\ call = [method |-> "GET", path |-> "/events"]
  /\ \/ /\ fetchFailure = "none"
        /\ res \in [status : {200, 500}, hasBody : BOOLEAN, body : {<<>>}]
     \/ /\ fetchFailure = "connect"
        /\ res = NoResponse
  /\ outcome = Pending
  /\ args = NoArgs
  /\ sent = <<>>

\* const stream = await this.events(query): requestStream("GET", path). A
\* rejection leaves the generator before a reader exists; with a stream,
\* stream.pipeThrough(new TextDecoderStream()).getReader() locks it.
EventsCall ==
  /\ dpc = "start"
  /\ LET req == DoFetch(runtime, TransportOptions(kind, apiVersion, timeoutOpt, credential), call,
                        RequestStreamInit)
         result == IF DoFetchRejects(fetchFailure, req.deadline # <<>>)
                   THEN FetchFailed("requestStream", fetchFailure, call)
                   ELSE RequestStreamResult(call, res)
     IN /\ sent' = sent \o Exchanges(req, fetchFailure)
        /\ outcome' = result
        /\ dpc' = IF result.kind = "stream" THEN "reading" ELSE "rejected"
        /\ reader' = IF result.kind = "stream" THEN "locked" ELSE reader
        /\ upstream' = IF result.kind = "stream" THEN "open" ELSE upstream
  /\ UNCHANGED <<wire, pos, utf8Pending, buffer, yielded, splitInLine, turnYield,
                 call, res, fetchFailure, args, lifecycleVars, streamVars, peerVars>>

\* A loop that takes a failed read for the end of the stream.
AfterReadFailure_swallowed(buf, out) == [dpc |-> "done", out |-> FinalParse(buf, out)]

\* await reader.read() rejects inside try { ... } finally { ... } with no catch
\* around it: the rest of the try block is skipped and the error leaves the
\* generator.
AfterReadFailure(buf, out) == [dpc |-> "threw", out |-> out]

\* reader.read() rejects (the connection broke): finally reader.releaseLock().
ReadFails ==
  /\ dpc = "reading"
  /\ LET after == AfterReadFailure(buffer, yielded)
     IN /\ dpc' = after.dpc
        /\ yielded' = after.out
  /\ turnYield' = 0
  /\ reader' = "released"
  /\ upstream' = "errored"
  /\ UNCHANGED <<wire, pos, utf8Pending, buffer, splitInLine,
                 exchangeVars, lifecycleVars, streamVars, peerVars>>

EventsNext ==
  \/ EventsCall
  \/ \E k \in 1..MaxWire : ReadChunk(k)
  \/ ReadFlush
  \/ ReadDone
  \/ \E n \in 1..MaxWire : StopIterating(n)
  \/ ReadFails

SpecEvents == EventsInit /\ [][EventsNext]_vars

====
